---- MODULE Spec2Model ----
(***************************************************************************)
(* claude-proxy: the streaming re-framer OpenAIProvider.stream_complete    *)
(* (src/src/claude_proxy/providers/openai.py), which turns the backend's   *)
(* chat-completion chunks into Claude streaming events.                    *)
(*                                                                         *)
(* One stream is modelled: the generator's local variables, the events it  *)
(* has yielded so far and the backend lines it has consumed (Spec).        *)
(*                                                                         *)
(* Further specifications model the gateway in front of it, main.py with   *)
(* config.py and utils.py (GatewaySpec), several generators at once        *)
(* (ConcurrentSpec), a generator and the consumer of its events (PullSpec),*)
(* the request conversion convert_request (ConvertSpec, and ShapeSpec for  *)
(* messages given as dicts or as typed blocks), the response conversion   *)
(* convert_response (RespondSpec) and the token estimate count_tokens      *)
(* (CountSpec).  Each leaves the variables of the others at rest.          *)
(*                                                                         *)
(* Encodings.  A string-valued JSON field that is null or missing is None  *)
(* (Python's None); None and "" are the falsy strings.  An integer JSON    *)
(* field that is missing is Absent, one that is null is Null.              *)
(* A tool-call fragment's "function" object is flattened into the fragment *)
(* (name, arguments): a missing or empty function object behaves like one  *)
(* whose name and arguments are both None.                                 *)
(***************************************************************************)
EXTENDS Integers, Sequences, FiniteSets, TLC

\* The number of times one stream may ask the backend for its next line.
MaxLines == 2

\* A key that is missing from a JSON object / a JSON null (Python None).
Absent == -2
Null == -1

\* Python's None where a string is expected, and Python's truthiness of a
\* string-or-None value.
None == "None"
Truthy(s) == s # None /\ s # ""

-----------------------------------------------------------------------------
(* The backend's lines *)

Contents == {None, "Hi", " there"}
FinishReasons == {None, "stop", "tool_calls"}
PromptTokens == {Absent, 3, 5}
CompletionTokens == {Absent, 7, 9}

NoUsage == [prompt_tokens |-> Absent, completion_tokens |-> Absent]
Usages == [prompt_tokens : PromptTokens, completion_tokens : CompletionTokens]

\* One entry of delta.tool_calls.  The fragments of backend index 0 take every
\* combination of id, name and arguments; those of index 1 carry their id
\* together with their name, as backends send them.
ToolCallFragments ==
    {f \in [index : {0, 1}, id : {"", "call_1"}, name : {None, "get_weather"},
            arguments : {None, "{"}] :
        f.index = 1 => (Truthy(f.id) <=> Truthy(f.name))}

NamedFragment(i) ==
    [index |-> i, id |-> "call_1", name |-> "get_weather", arguments |-> None]

\* delta.tool_calls: missing, one fragment, or two tool calls announced at once.
ToolCallLists ==
    {<<>>} \cup {<<f>> : f \in ToolCallFragments}
           \cup {<<NamedFragment(0), NamedFragment(1)>>,
                 <<NamedFragment(1), NamedFragment(0)>>}

\* What a line of the backend's body can be:
\*   "other"     a line that does not start with "data: " (blank, comment)
\*   "done"      data: [DONE]
\*   "badjson"   data: followed by text that is not JSON
\*   "nondict"   data: followed by JSON that is not an object (null, 1, [])
\*   "nochoices" an object without a non-empty choices list
\*   "badchoice" an object whose choices[0] is not a non-empty object
\*   "chunk"     an object with a choices[0] object
BlankLine ==
    [kind |-> "other", content |-> None, tool_calls |-> <<>>,
     finish_reason |-> None, usage |-> NoUsage]

Chunk(content, tool_calls, finish_reason, usage) ==
    [kind |-> "chunk", content |-> content, tool_calls |-> tool_calls,
     finish_reason |-> finish_reason, usage |-> usage]

BlockChunks ==
    {Chunk(c, t, f, NoUsage) :
        c \in {None, "Hi"}, t \in ToolCallLists, f \in FinishReasons}
    \cup {Chunk(" there", <<>>, f, NoUsage) : f \in FinishReasons}

UsageChunks ==
    {Chunk(None, <<>>, f, u) : f \in FinishReasons, u \in Usages \ {NoUsage}}

SkippedLines ==
    {[BlankLine EXCEPT !.kind = k] : k \in {"other", "badjson", "badchoice"}}
    \cup {[BlankLine EXCEPT !.kind = "nochoices",
                            !.usage = [prompt_tokens |-> 3, completion_tokens |-> 7]]}

Lines ==
    BlockChunks \cup UsageChunks \cup SkippedLines
    \cup {[BlankLine EXCEPT !.kind = k] : k \in {"done", "nondict"}}

-----------------------------------------------------------------------------
(* The events of the stream *)

\* Every event has the same fields; an event leaves those it does not carry
\* blank.  "call" is not part of the event's JSON: it records the backend
\* tool-call index the event was produced for.
BlankEvent ==
    [type |-> "", index |-> Absent, kind |-> "", id |-> "", name |-> "",
     text |-> "", stop_reason |-> None, tokens |-> Absent, call |-> Absent]

MessageStart(tokens) ==
    [BlankEvent EXCEPT !.type = "message_start", !.tokens = tokens]

TextBlockStart ==
    [BlankEvent EXCEPT !.type = "content_block_start", !.index = 0,
                       !.kind = "text"]

TextDelta(content) ==
    [BlankEvent EXCEPT !.type = "content_block_delta", !.index = 0,
                       !.kind = "text_delta", !.text = content]

ToolBlockStart(content_index, id, name, call_index) ==
    [BlankEvent EXCEPT !.type = "content_block_start", !.index = content_index,
                       !.kind = "tool_use", !.id = id, !.name = name,
                       !.call = call_index]

ToolDelta(content_index, arguments, call_index) ==
    [BlankEvent EXCEPT !.type = "content_block_delta", !.index = content_index,
                       !.kind = "input_json_delta", !.text = arguments,
                       !.call = call_index]

BlockStop(content_index) ==
    [BlankEvent EXCEPT !.type = "content_block_stop", !.index = content_index]

MessageDelta(stop_reason, output_tokens) ==
    [BlankEvent EXCEPT !.type = "message_delta", !.stop_reason = stop_reason,
                       !.tokens = output_tokens]

MessageStop == [BlankEvent EXCEPT !.type = "message_stop"]

ErrorEvent(message) ==
    [BlankEvent EXCEPT !.type = "error", !.kind = "api_error",
                       !.text = message]

-----------------------------------------------------------------------------
(* Helpers of the provider *)

\* What the text of an exception can contain, as far as classify_error looks.
ErrorTexts == {"timeout", "connection", "other"}

\* Status codes of the backend's response; raise_for_status raises for 4xx/5xx.
Statuses == {200, 400, 401, 404, 429, 500, 504}

IsErrorStatus(status_code) == status_code >= 400

\* What str(e) of the HTTPStatusError holds, as far as classify_error looks:
\* the status line's reason phrase is in it ("504 Gateway Timeout").
HTTPStatusError(status_code) == IF status_code = 504 THEN "timeout" ELSE "other"

classify_error(error_message, status_code) ==
    IF status_code = 401 THEN "Invalid API key. Please check your credentials."
    ELSE IF status_code = 429 THEN "Rate limit exceeded. Please try again later."
    ELSE IF status_code = 400 THEN "Bad request. Please check your input parameters."
    ELSE IF status_code = 500 THEN "Internal server error. Please try again later."
    ELSE IF error_message = "timeout" THEN "Request timeout. Please try again."
    ELSE IF error_message = "connection"
         THEN "Connection error. Please check your network."
    ELSE "API Error: other"

\* Every finish reason taken for "stop".
_convert_finish_reason_alwaysEndTurn(openai_reason) ==
    IF openai_reason = None THEN None ELSE "end_turn"

_convert_finish_reason(openai_reason) ==
    IF openai_reason = None THEN None
    ELSE IF openai_reason = "stop" THEN "end_turn"
    ELSE IF openai_reason = "length" THEN "max_tokens"
    ELSE IF openai_reason = "function_call" THEN "tool_use"
    ELSE IF openai_reason = "tool_calls" THEN "tool_use"
    ELSE IF openai_reason = "content_filter" THEN "stop_sequence"
    ELSE "end_turn"

-----------------------------------------------------------------------------
(* The translation of one chunk *)

\* if chunk.get("usage") ...: input_tokens = usage.get("prompt_tokens", input_tokens)
NewInputTokens(usage, tokens) ==
    IF usage # NoUsage /\ usage.prompt_tokens # Absent
    THEN usage.prompt_tokens
    ELSE tokens

\* TextEvents without the test of text_block_started: every text delta opens
\* the block again.
TextEvents_alwaysStarts(content, started) ==
    IF Truthy(content)
    THEN <<TextBlockStart, TextDelta(content)>>
    ELSE <<>>

\* TextEvents with the block opened after its first delta.
TextEvents_lateStart(content, started) ==
    IF Truthy(content)
    THEN <<TextDelta(content)>> \o (IF started THEN <<>> ELSE <<TextBlockStart>>)
    ELSE <<>>

\* The events of the chunk's text: the block is opened before its first delta.
TextEvents(content, started) ==
    IF Truthy(content)
    THEN (IF started THEN <<>> ELSE <<TextBlockStart>>) \o <<TextDelta(content)>>
    ELSE <<>>

\* content_index = 1 if has_text_content else 0
content_index(has_text) == IF has_text THEN 1 ELSE 0

NewAccumulator(call_id) ==
    [id |-> call_id, name |-> "", arguments |-> "", started |-> FALSE]

\* Accumulate with the arguments replaced by the fragment's, not appended.
Accumulate_replaces(acc, tool_call) ==
    [acc EXCEPT
        !.id = IF Truthy(tool_call.id) THEN tool_call.id ELSE @,
        !.name = IF Truthy(tool_call.name) THEN tool_call.name ELSE @,
        !.arguments = IF Truthy(tool_call.arguments)
                      THEN tool_call.arguments ELSE @]

\* The accumulator of a tool call after the fragment's id, name and arguments.
Accumulate(acc, tool_call) ==
    [acc EXCEPT
        !.id = IF Truthy(tool_call.id) THEN tool_call.id ELSE @,
        !.name = IF Truthy(tool_call.name) THEN tool_call.name ELSE @,
        !.arguments = IF Truthy(tool_call.arguments)
                      THEN @ \o tool_call.arguments ELSE @]

\* StartsBlock without the test of "started": every named fragment opens.
StartsBlock_ignoresStarted(acc) == Truthy(acc.name)

\* if acc["name"] and not acc["started"]
StartsBlock(acc) == Truthy(acc.name) /\ ~acc.started

\* if func and func.get("arguments")
SendsDelta(acc, tool_call) == Truthy(tool_call.arguments)

\* One pass of the body of "for tool_call in tool_calls".  st holds the loop's
\* state: the accumulators, has_tool_content and the events yielded so far.
ToolCallStep(st, tool_call, has_text) ==
    LET call_index == tool_call.index
        old == IF call_index \in DOMAIN st.accumulator
               THEN st.accumulator[call_index]
               ELSE NewAccumulator(tool_call.id)
        acc == Accumulate(old, tool_call)
        starts == StartsBlock(acc)
        start == IF starts
                 THEN <<ToolBlockStart(content_index(has_text), acc.id, acc.name,
                                       call_index)>>
                 ELSE <<>>
        delta == IF SendsDelta(acc, tool_call)
                 THEN <<ToolDelta(content_index(has_text), tool_call.arguments,
                                  call_index)>>
                 ELSE <<>>
    IN  [accumulator |->
            (call_index :> [acc EXCEPT !.started = @ \/ starts]) @@ st.accumulator,
         has_tool |-> st.has_tool \/ starts,
         out |-> st.out \o start \o delta]

RECURSIVE ToolCallsLoop(_, _, _)
ToolCallsLoop(st, tool_calls, has_text) ==
    IF tool_calls = <<>>
    THEN st
    ELSE ToolCallsLoop(ToolCallStep(st, Head(tool_calls), has_text),
                       Tail(tool_calls), has_text)

\* output_tokens = usage_info.get("completion_tokens", 0)
OutputTokens(usage) ==
    IF usage.completion_tokens = Absent THEN 0 ELSE usage.completion_tokens

\* The content_block_stop events of a chunk that carries a finish reason.
StopEvents(has_tool, has_text) ==
    (IF has_tool THEN <<BlockStop(content_index(has_text))>> ELSE <<>>)
    \o (IF has_text THEN <<BlockStop(0)>> ELSE <<>>)

\* Everything yielded for a finish reason: the stops, message_delta, message_stop.
FinishEvents(chunk, has_tool, has_text) ==
    StopEvents(has_tool, has_text)
    \o <<MessageDelta(_convert_finish_reason(chunk.finish_reason),
                      OutputTokens(chunk.usage)),
         MessageStop>>

\* AfterChunk without the break: the loop goes on after a finish reason.
AfterChunk_noBreak(finish_reason) == "streaming"

\* After a finish reason's events the loop is left (break); otherwise the
\* next line is read.
AfterChunk(finish_reason) ==
    IF Truthy(finish_reason) THEN "finished" ELSE "streaming"

-----------------------------------------------------------------------------
(* The gateway's state (main.py), declared here because every specification *)
(* of this module says what all the variables do.                           *)

\* A header value or key is a string, kept as the sequence of the words
\* between its single spaces so that startswith and replace can be computed:
\* "Bearer sk-1" is <<"Bearer", "sk-1">>.  NoKey is Python's None (the header
\* or setting is absent), EmptyKey is "".  None and "" are the falsy values.
NoKey == <<>>
EmptyKey == <<"">>
HasValue(key) == key # NoKey /\ key # EmptyKey

VARIABLES
    env,           \* OPENAI_API_KEY and CLAUDE_PROXY_AUTH_KEY of the process
    settings,      \* the module-level settings = get_settings()
    request,       \* the inbound request being handled
    handler,       \* where the request's handling stands
    client_key,    \* what the validate_client_api_key dependency returned
    provider,      \* the api_key of the provider get_provider built, or NoKey
    client,        \* the provider's httpx client: "none", "open", "closed"
    backend,       \* the backend response stream: "none", "open", "closed"
    connected,     \* the client holds a connection to the backend in its pool
    sent,          \* the backend calls issued so far, in order
    response,      \* the HTTP response to the inbound request
    exit_path,     \* how the handling of the request ended
    requests,      \* the number of requests received so far
    answer         \* what the backend call of complete() came to

gateway ==
    <<env, settings, request, handler, client_key, provider, client, backend,
      connected, sent, response, exit_path, requests, answer>>

NoRequest == [endpoint |-> "none", x_api_key |-> NoKey, authorization |-> NoKey,
              stream |-> FALSE]
NoResponse == [status_code |-> 0, detail |-> "", body |-> <<>>]
NoAnswer ==
    [outcome |-> "none", status_code |-> Null, text |-> "", payload |-> <<>>]

\* No process is serving: the state of the gateway in the specifications of
\* the other components.
GatewayOff ==
    /\ env = [OPENAI_API_KEY |-> NoKey, CLAUDE_PROXY_AUTH_KEY |-> NoKey]
    /\ settings = [openai_api_key |-> NoKey, auth_key |-> NoKey]
    /\ request = NoRequest
    /\ handler = "off"
    /\ client_key = NoKey
    /\ provider = NoKey
    /\ client = "none"
    /\ backend = "none"
    /\ connected = FALSE
    /\ sent = <<>>
    /\ response = NoResponse
    /\ exit_path = "none"
    /\ requests = 0
    /\ answer = NoAnswer

\* The state of the remaining specifications of this module.
VARIABLES
    streams,        \* concurrent streams: the generator state of each
    generator,      \* one generator and its consumer: the generator's state
    handed,         \* ... and the number of its events the consumer has got
    claude_request, \* convert_request: the request given to it
    openai_request, \* ... and what it returned
    targets,        \* settings.big_model and settings.small_model
    openai_response, \* convert_response: the backend's payload given to it
    claude_response \* ... and what it returned, or that it raised

converter ==
    <<claude_request, openai_request, targets, openai_response, claude_response>>

StreamsOff == streams = <<>>
ConsumerOff == generator = <<>> /\ handed = 0
ConverterOff ==
    /\ claude_request = <<>>
    /\ openai_request = <<>>
    /\ targets = <<>>
    /\ openai_response = <<>>
    /\ claude_response = <<>>

-----------------------------------------------------------------------------
(* The generator *)

VARIABLES
    pc,                      \* where the generator stands
    events,                  \* the events yielded so far, in order
    received,                \* the backend lines read so far, in order
    input_tokens,
    tool_calls_accumulator,
    has_text_content,
    has_tool_content,
    text_block_started

vars ==
    <<pc, events, received, input_tokens, tool_calls_accumulator,
      has_text_content, has_tool_content, text_block_started>>

accumulators ==
    <<input_tokens, tool_calls_accumulator, has_text_content, has_tool_content,
      text_block_started>>

\* pc:  "start"      the request has not been sent
\*      "streaming"  in the loop over response.aiter_lines()
\*      "finished"   left the loop on a finish reason
\*      "sentinel"   left the loop on data: [DONE]
\*      "exhausted"  the body ended
\*      "failed"     an except clause yielded the error event
Terminated == pc \in {"finished", "sentinel", "exhausted", "failed"}

\* The generator not yet called: the state of its variables in the
\* specifications of the other components.
StreamOff ==
    /\ pc = "start"
    /\ events = <<>>
    /\ received = <<>>
    /\ input_tokens = 0
    /\ tool_calls_accumulator = <<>>
    /\ has_text_content = FALSE
    /\ has_tool_content = FALSE
    /\ text_block_started = FALSE

Init ==
    /\ pc = "start"
    /\ events = <<>>
    /\ received = <<>>
    /\ input_tokens = 0
    /\ tool_calls_accumulator = <<>>
    /\ has_text_content = FALSE
    /\ has_tool_content = FALSE
    /\ text_block_started = FALSE
    /\ GatewayOff
    /\ StreamsOff
    /\ ConsumerOff
    /\ ConverterOff

\* Raise with the error event yielded but the generator carrying on where
\* it stood.
Raise_carriesOn(error_message, status_code) ==
    /\ events' = Append(events, ErrorEvent(classify_error(error_message, status_code)))
    /\ pc' = pc

\* An except clause: one error event, and the generator returns.
Raise(error_message, status_code) ==
    /\ events' = Append(events, ErrorEvent(classify_error(error_message, status_code)))
    /\ pc' = "failed"

\* client.stream(...) raises: the backend cannot be reached.
OpenFails ==
    /\ pc = "start"
    /\ \E text \in ErrorTexts : Raise(text, Null)
    /\ UNCHANGED <<received, accumulators>>

\* OpenStatusError with message_start yielded before the status is checked.
OpenStatusError_afterStart ==
    /\ pc = "start"
    /\ \E status_code \in Statuses :
          /\ IsErrorStatus(status_code)
          /\ events' = <<MessageStart(0),
                         ErrorEvent(classify_error(HTTPStatusError(status_code),
                                                   status_code))>>
          /\ pc' = "failed"
    /\ UNCHANGED <<received, accumulators>>

\* raise_for_status() raises HTTPStatusError.
OpenStatusError ==
    /\ pc = "start"
    /\ \E status_code \in Statuses :
          /\ IsErrorStatus(status_code)
          /\ Raise(HTTPStatusError(status_code), status_code)
    /\ UNCHANGED <<received, accumulators>>

\* The response is 2xx: the accumulator is created and message_start yielded.
OpenOk ==
    /\ pc = "start"
    /\ \E status_code \in Statuses : ~IsErrorStatus(status_code)
    /\ input_tokens' = 0
    /\ tool_calls_accumulator' = <<>>
    /\ has_text_content' = FALSE
    /\ has_tool_content' = FALSE
    /\ text_block_started' = FALSE
    /\ events' = Append(events, MessageStart(0))
    /\ pc' = "streaming"
    /\ UNCHANGED received

Reads(line) ==
    /\ pc = "streaming"
    /\ Len(received) < MaxLines
    /\ line \in Lines
    /\ received' = Append(received, line)

\* A line without the "data: " prefix, a body that is not JSON (JSONDecodeError),
\* or a chunk without a usable choices[0]: continue with the next line.
ReadSkipped ==
    /\ \E line \in SkippedLines : Reads(line)
    /\ UNCHANGED <<pc, events, accumulators>>

\* ReadDone that closes the message as a finish reason does.
ReadDone_closes ==
    /\ \E line \in Lines : line.kind = "done" /\ Reads(line)
    /\ events' = events \o StopEvents(has_tool_content, has_text_content)
                         \o <<MessageDelta("end_turn", 0), MessageStop>>
    /\ pc' = "sentinel"
    /\ UNCHANGED accumulators

\* data: [DONE]: break.
ReadDone ==
    /\ \E line \in Lines : line.kind = "done" /\ Reads(line)
    /\ pc' = "sentinel"
    /\ UNCHANGED <<events, accumulators>>

\* The body is JSON but no object: chunk.get raises AttributeError, which the
\* generator's "except Exception" turns into the error event.
ReadNonObject ==
    /\ \E line \in Lines : line.kind = "nondict" /\ Reads(line)
    /\ Raise("other", Null)
    /\ UNCHANGED accumulators

\* A chunk with a choices[0] object: usage, text, tool calls, finish reason.
ReadChunk ==
    \E chunk \in Lines :
        /\ chunk.kind = "chunk"
        /\ Reads(chunk)
        /\ LET text == TextEvents(chunk.content, text_block_started)
               has_text == has_text_content \/ Truthy(chunk.content)
               loop == ToolCallsLoop([accumulator |-> tool_calls_accumulator,
                                      has_tool |-> has_tool_content,
                                      out |-> <<>>],
                                     chunk.tool_calls, has_text)
               finish == IF Truthy(chunk.finish_reason)
                         THEN FinishEvents(chunk, loop.has_tool, has_text)
                         ELSE <<>>
           IN  /\ input_tokens' = NewInputTokens(chunk.usage, input_tokens)
               /\ text_block_started' = (text_block_started \/ Truthy(chunk.content))
               /\ has_text_content' = has_text
               /\ tool_calls_accumulator' = loop.accumulator
               /\ has_tool_content' = loop.has_tool
               /\ events' = events \o text \o loop.out \o finish
               /\ pc' = AfterChunk(chunk.finish_reason)

\* Reading the next line raises (the connection breaks mid-stream).
ReadFails ==
    /\ pc = "streaming"
    /\ Len(received) < MaxLines
    /\ \E text \in ErrorTexts : Raise(text, Null)
    /\ UNCHANGED <<received, accumulators>>

\* The body ends without [DONE] and without a finish reason.
EndOfBody ==
    /\ pc = "streaming"
    /\ Len(received) < MaxLines
    /\ pc' = "exhausted"
    /\ UNCHANGED <<events, received, accumulators>>

\* The variables of the other components, which a step of the generator
\* leaves alone.
besides_stream ==
    <<gateway, streams, generator, handed, converter>>

Next ==
    \/ OpenFails /\ UNCHANGED besides_stream
    \/ OpenStatusError /\ UNCHANGED besides_stream
    \/ OpenOk /\ UNCHANGED besides_stream
    \/ ReadSkipped /\ UNCHANGED besides_stream
    \/ ReadDone /\ UNCHANGED besides_stream
    \/ ReadNonObject /\ UNCHANGED besides_stream
    \/ ReadChunk /\ UNCHANGED besides_stream
    \/ ReadFails /\ UNCHANGED besides_stream
    \/ EndOfBody /\ UNCHANGED besides_stream

Spec == Init /\ [][Next]_<<vars, besides_stream>>

-----------------------------------------------------------------------------
(* Reading the event stream *)

Last(s) == s[Len(s)]

\* The positions of the events of one type.
OfType(type) == {i \in DOMAIN events : events[i].type = type}

TextStarts == {i \in OfType("content_block_start") : events[i].kind = "text"}
ToolStarts == {i \in OfType("content_block_start") : events[i].kind = "tool_use"}
ToolDeltas ==
    {i \in OfType("content_block_delta") : events[i].kind = "input_json_delta"}

ClosingTypes == {"content_block_stop", "message_delta", "message_stop"}

\* The chunks among the lines read that got as far as the translation.
ChunksRead == {i \in DOMAIN received : received[i].kind = "chunk"}

Max(S) == CHOOSE x \in S : \A y \in S : y <= x
Min(S) == CHOOSE x \in S : \A y \in S : x <= y

\* The latest value of a usage counter among the chunks read; 0 before any.
LatestUsage(field) ==
    LET with == {i \in ChunksRead :
                    received[i].usage[field] \notin {Absent, Null}}
    IN  IF with = {} THEN 0 ELSE received[Max(with)].usage[field]

\* The backend tool-call indices in the order in which the chunks read first
\* mention them, and a call's position in that order (from 0).
FirstMention(call) ==
    Min({i \in ChunksRead :
            \E k \in DOMAIN received[i].tool_calls :
                received[i].tool_calls[k].index = call})

MentionInChunk(i, call) ==
    Min({k \in DOMAIN received[i].tool_calls :
            received[i].tool_calls[k].index = call})

CallsMentioned ==
    UNION {{received[i].tool_calls[k].index : k \in DOMAIN received[i].tool_calls} :
            i \in ChunksRead}

MentionedBefore(c, d) ==
    \/ FirstMention(c) < FirstMention(d)
    \/ /\ FirstMention(c) = FirstMention(d)
       /\ MentionInChunk(FirstMention(c), c) < MentionInChunk(FirstMention(d), d)

Ordinal(call) ==
    Cardinality({c \in CallsMentioned : MentionedBefore(c, call)})

-----------------------------------------------------------------------------
(* The claims *)

\* C1: when the last chunk processed carries a finish reason, the events start
\* with the only message_start, every content_block_start at an index is
\* followed by exactly one content_block_stop at that index, no index is
\* stopped without having been started or stopped twice, and the events end
\* with the only message_delta followed by the only message_stop.
C1_EventsWellFormed ==
    pc = "finished" =>
        /\ events[1].type = "message_start"
        /\ Cardinality(OfType("message_start")) = 1
        /\ \A i \in OfType("content_block_start") :
              Cardinality({j \in OfType("content_block_stop") :
                              j > i /\ events[j].index = events[i].index}) = 1
        /\ \A j \in OfType("content_block_stop") :
              \E i \in OfType("content_block_start") :
                  i < j /\ events[i].index = events[j].index
        /\ \A j, k \in OfType("content_block_stop") :
              events[j].index = events[k].index => j = k
        /\ Len(events) >= 3
        /\ events[Len(events) - 1].type = "message_delta"
        /\ Last(events).type = "message_stop"
        /\ Cardinality(OfType("message_delta")) = 1
        /\ Cardinality(OfType("message_stop")) = 1

\* C2: a stream whose backend call failed (at the connection, at the status
\* check, or while lines are read and translated) holds exactly one error
\* event, of type api_error with a classified message, and that event is the
\* last one: nothing is ever emitted after it.
ErrorMessages ==
    {classify_error(text, status_code) :
        text \in ErrorTexts, status_code \in Statuses \cup {Null}}

C2_OneErrorEventLast ==
    /\ Cardinality(OfType("error")) <= 1
    /\ \A i \in OfType("error") :
          /\ i = Len(events)
          /\ events[i].kind = "api_error"
          /\ events[i].text \in ErrorMessages
    /\ (pc = "failed") <=> (OfType("error") # {})

\* The backend fails mid-stream, after a block was opened.
C2_Witness ==
    /\ pc = "failed"
    /\ OfType("content_block_delta") # {}
    /\ Last(events).type = "error"

\* C3: a tool call's content_block_start carries the index (1 if a text block
\* was opened, else 0) + the position of the tool call among those seen so far.
C3_ToolIndexIsOrdinal ==
    \A i \in ToolStarts :
        events[i].index =
            (IF \E t \in TextStarts : t < i THEN 1 ELSE 0) + Ordinal(events[i].call)

\* C4: no two blocks share an index, the deltas of a tool call carry the index
\* of its content_block_start, a tool call uses index 0 only in a stream that
\* opens no text block, and on a finish reason every tool call's index is
\* stopped.
C4_BlockIndicesDistinct ==
    /\ \A i, j \in OfType("content_block_start") :
          events[i].index = events[j].index => i = j
    /\ \A d \in ToolDeltas : \A i \in ToolStarts :
          events[d].call = events[i].call => events[d].index = events[i].index
    /\ \A i \in ToolStarts : events[i].index = 0 => TextStarts = {}
    /\ pc = "finished" =>
          \A i \in ToolStarts :
              \E j \in OfType("content_block_stop") :
                  events[j].index = events[i].index

\* C5: a chunk with a finish reason ends the stream: its events end with
\* message_delta, carrying the mapped stop reason, and message_stop; from then
\* on no line is read and no event is emitted.
StopReasonTable(finish_reason) ==
    CASE finish_reason = "stop" -> "end_turn"
      [] finish_reason = "length" -> "max_tokens"
      [] finish_reason = "function_call" -> "tool_use"
      [] finish_reason = "tool_calls" -> "tool_use"
      [] finish_reason = "content_filter" -> "stop_sequence"
      [] OTHER -> "end_turn"

ReadsFinishChunk ==
    /\ pc = "streaming"
    /\ Len(received') = Len(received) + 1
    /\ Last(received').kind = "chunk"
    /\ Truthy(Last(received').finish_reason)

C5_FinishStep ==
    /\ ReadsFinishChunk =>
          /\ pc' = "finished"
          /\ Len(events') >= Len(events) + 2
          /\ events'[Len(events') - 1].type = "message_delta"
          /\ events'[Len(events') - 1].stop_reason =
                StopReasonTable(Last(received').finish_reason)
          /\ Last(events').type = "message_stop"
          /\ Cardinality({i \in DOMAIN events' :
                            events'[i].type \in {"message_delta", "message_stop"}}) = 2
    /\ pc = "finished" => UNCHANGED <<pc, events, received>>

C5_FinishTerminates == [][C5_FinishStep]_vars

\* A stream that ended on a finish reason after some text.
C5_Witness ==
    /\ pc = "finished"
    /\ Len(received) = 2
    /\ TextStarts # {}
    /\ Last(events).type = "message_stop"

\* C6: on a finish reason the blocks are stopped in the order in which they
\* were opened.
C6_StopsInOpeningOrder ==
    pc = "finished" =>
        \A i, j \in OfType("content_block_start") :
            i < j /\ events[i].index # events[j].index =>
                \A si, sj \in OfType("content_block_stop") :
                    /\ events[si].index = events[i].index
                    /\ events[sj].index = events[j].index
                    => si < sj

\* C7: a line whose body is malformed or cannot be parsed changes nothing: no
\* event is emitted for it, the accumulator is as before and the stream goes
\* on, so the events are those of the same lines without it.
MalformedKinds == {"badjson", "nondict", "nochoices", "badchoice"}

C7_MalformedStep ==
    /\ pc = "streaming"
    /\ Len(received') = Len(received) + 1
    /\ Last(received').kind \in MalformedKinds
    => /\ pc' = "streaming"
       /\ UNCHANGED <<events, accumulators>>

C7_MalformedLinesSkipped == [][C7_MalformedStep]_vars

\* C8: message_delta carries the latest completion-token value of the usage of
\* the chunks read up to the finish chunk, and input_tokens is the latest
\* prompt-token value.
C8_LatestUsageWins ==
    /\ input_tokens = LatestUsage("prompt_tokens")
    /\ pc = "finished" =>
          events[Len(events) - 1].tokens = LatestUsage("completion_tokens")

\* C9: every input_json_delta comes after the content_block_start of the tool
\* call it belongs to.
C9_DeltaAfterStart ==
    \A d \in ToolDeltas :
        \E i \in ToolStarts : i < d /\ events[i].call = events[d].call

\* C10: the chunks ["Hi"; " there" with finish reason stop] give exactly the
\* seven events of the scenario, and in every stream each content_block_delta
\* comes before every closing event.
ScenarioChunks ==
    <<Chunk("Hi", <<>>, None, NoUsage), Chunk(" there", <<>>, "stop", NoUsage)>>

ScenarioEvents ==
    <<[BlankEvent EXCEPT !.type = "message_start", !.tokens = 0],
      [BlankEvent EXCEPT !.type = "content_block_start", !.index = 0,
                         !.kind = "text"],
      [BlankEvent EXCEPT !.type = "content_block_delta", !.index = 0,
                         !.kind = "text_delta", !.text = "Hi"],
      [BlankEvent EXCEPT !.type = "content_block_delta", !.index = 0,
                         !.kind = "text_delta", !.text = " there"],
      [BlankEvent EXCEPT !.type = "content_block_stop", !.index = 0],
      [BlankEvent EXCEPT !.type = "message_delta", !.stop_reason = "end_turn",
                         !.tokens = 0],
      [BlankEvent EXCEPT !.type = "message_stop"]>>

C10_ScenarioStreamingText ==
    /\ received = ScenarioChunks => events = ScenarioEvents
    /\ \A i \in OfType("content_block_delta") :
          \A j \in DOMAIN events :
              events[j].type \in ClosingTypes => i < j

\* The scenario's chunks were read, the second one carrying text and the
\* finish reason.
C10_Witness ==
    /\ received = ScenarioChunks
    /\ pc = "finished"

-----------------------------------------------------------------------------
(* convert_request: the Claude request turned into the backend's request   *)
(* (openai.py).  The request has passed validation, so the blocks of a      *)
(* message are the typed models of models/claude.py; the blocks of "system" *)
(* are plain dicts.  convert_request also takes the blocks of a message as  *)
(* dicts; ShapeSpec converts both shapes of the same blocks.                *)

\* The largest number of blocks in one message or in "system".
MaxBlocks == 3

SeqUpTo(S, n) == UNION {[1..k -> S] : k \in 0..n}

\* A value that is None, a string, or a list.
NoneValue == [kind |-> "none", text |-> "", items |-> <<>>]
Str(text) == [kind |-> "str", text |-> text, items |-> <<>>]
List(items) == [kind |-> "list", text |-> "", items |-> items]

\* A dict {"type": ..., "text": ...}; a missing "text" is None.
Dict(type, text) == [type |-> type, text |-> text]

\* One item of a dict of strings.
Item(key, value) == [key |-> key, value |-> value]

\* The "source" of an image: a dict; a key that is missing is None.
Source(type, media_type, data) ==
    [type |-> type, media_type |-> media_type, data |-> data]
NoSource == Source(None, None, None)

\* The typed blocks.  "input" is a dict, kept as the sequence of its items.
\* "shape" tells a typed block ("model") from a plain dict with the same keys
\* and values ("dict").
BlankBlock ==
    [shape |-> "model", type |-> "", text |-> "", source |-> NoSource,
     id |-> "", name |-> "", input |-> <<>>,
     tool_use_id |-> "", content |-> NoneValue]
ClaudeTextContent(text) == [BlankBlock EXCEPT !.type = "text", !.text = text]
ClaudeImageContent(source) ==
    [BlankBlock EXCEPT !.type = "image", !.source = source]
ClaudeToolUseContent(id, name, input) ==
    [BlankBlock EXCEPT !.type = "tool_use", !.id = id, !.name = name,
                       !.input = input]
ClaudeToolResultContent(tool_use_id, content) ==
    [BlankBlock EXCEPT !.type = "tool_result", !.tool_use_id = tool_use_id,
                       !.content = content]

ClaudeMessage(role, content) == [role |-> role, content |-> content]

Blocks ==
    {ClaudeTextContent(""), ClaudeTextContent("Hi"), ClaudeTextContent("there"),
     ClaudeImageContent(Source("base64", "image/png", "iVBORw0")),
     ClaudeToolUseContent("toolu_1", "get_weather", <<Item("city", "Paris")>>),
     ClaudeToolUseContent("toolu_2", "get_time", <<>>),
     ClaudeToolResultContent("toolu_1", Str("sunny")),
     ClaudeToolResultContent("toolu_2", List(<<Dict("text", "noon")>>))}

\* "system": absent, a string, or a list of dicts.
SystemBlocks ==
    {Dict("text", ""), Dict("text", "Be brief."), Dict("text", None),
     Dict("image", None)}
Systems ==
    {NoneValue, Str(""), Str("Be brief.")}
    \cup {List(blocks) : blocks \in SeqUpTo(SystemBlocks, MaxBlocks - 1)}

\* The requests convert_request is given: any "system" before one plain
\* message, and any one message between plain messages.
Before == {<<>>, <<ClaudeMessage("user", Str("What is the weather?"))>>}
After == {<<>>, <<ClaudeMessage("user", Str("Thanks."))>>}
Messages ==
    {ClaudeMessage(role, content) :
        role \in {"user", "assistant"},
        content \in {Str(""), Str("Hello")}
                    \cup {List(blocks) : blocks \in SeqUpTo(Blocks, MaxBlocks)}}
\* A model identifier is the sequence of its fragments: the family words
\* (haiku, sonnet, opus, in any case) and what stands between them.  "" is
\* the empty sequence.
Sonnet35 == <<"claude-3-5-", "sonnet", "-20241022">>
ModelIds ==
    {<<>>, <<"claude-3-", "haiku">>, <<"claude-3-5-", "haiku", "-20241022">>,
     <<"Claude-3-", "Haiku">>, <<"my-", "HAIKU", "-or-", "sonnet">>,
     Sonnet35, <<"claude-", "opus", "-4-1">>, <<"CLAUDE-", "SONNET", "-4">>,
     <<"claude-", "Opus", "-4">>, <<"gpt-4o">>, <<"claude-2.1">>}

\* An Optional[bool]: None is the empty sequence.
NoFlag == <<>>
Flag(bool) == <<bool>>

\* The configured targets (CLAUDE_PROXY_BIG_MODEL, CLAUDE_PROXY_SMALL_MODEL);
\* the first are the defaults.
Settings(big_model, small_model) ==
    [big_model |-> big_model, small_model |-> small_model]
DefaultTargets == Settings("gpt-4o", "gpt-4o-mini")
Targets ==
    {DefaultTargets, Settings("qwen-max", "qwen-turbo"),
     Settings("deepseek-chat", "deepseek-chat")}

\* tool_choice: None, or a dict whose "type" and "name" are there or missing.
NoChoice == <<>>
Choice(type, name) == [type |-> type, name |-> name]

\* The optional fields are None unless a request sets them.
ClaudeMessagesRequest(model, max_tokens, messages, system, stream) ==
    [model |-> model, max_tokens |-> max_tokens, messages |-> messages,
     system |-> system, stream |-> stream, temperature |-> Null,
     top_p |-> Null, stop_sequences |-> NoneValue, tools |-> NoneValue,
     tool_choice |-> NoChoice]

ClaudeRequests ==
    {ClaudeMessagesRequest(Sonnet35, 1024,
                           <<ClaudeMessage("user", Str("Hello"))>>, system,
                           Flag(FALSE)) :
        system \in Systems}
    \cup {ClaudeMessagesRequest(Sonnet35, 1024, before \o <<msg>> \o after,
                                NoneValue, Flag(FALSE)) :
            before \in Before, msg \in Messages, after \in After}

\* Requests whose messages all have string content, with any model, any
\* max_tokens and any stream flag.
PlainMessages ==
    {ClaudeMessage(role, Str(text)) :
        role \in {"user", "assistant"}, text \in {"", "Hello"}}
PlainRequests ==
    {ClaudeMessagesRequest(model, max_tokens, messages, system, stream) :
        model \in ModelIds, max_tokens \in {1, 4096},
        messages \in SeqUpTo(PlainMessages, MaxBlocks - 1),
        system \in {NoneValue, Str("Be brief.")},
        stream \in {NoFlag, Flag(FALSE), Flag(TRUE)}}

\* A lower() that leaves the fragment as it is.
lower_asIs(fragment) == fragment

\* str.lower() of a fragment.

lower(fragment) ==
    CASE fragment \in {"Haiku", "HAIKU"} -> "haiku"
      [] fragment \in {"Sonnet", "SONNET"} -> "sonnet"
      [] fragment \in {"Opus", "OPUS"} -> "opus"
      [] fragment = "Claude-3-" -> "claude-3-"
      [] fragment = "CLAUDE-" -> "claude-"
      [] OTHER -> fragment

\* "word in claude_model.lower()"
in_lower(word, claude_model) ==
    \E i \in DOMAIN claude_model : lower(claude_model[i]) = word

\* config.get_model_mapping(): the table of the identifiers mapped directly.
get_model_mapping ==
    [claude_model \in
        {<<"claude-3-", "haiku">>, <<"claude-3-", "haiku", "-20240307">>,
         <<"claude-3-", "sonnet">>, <<"claude-3-", "sonnet", "-20240229">>,
         <<"claude-3-5-", "sonnet">>, <<"claude-3-5-", "sonnet", "-20241022">>,
         <<"claude-3-", "opus">>, <<"claude-3-", "opus", "-20240229">>,
         <<"claude-", "sonnet", "-4-20250514">>} |->
        IF claude_model[2] = "haiku" THEN targets.small_model
        ELSE targets.big_model]

\* config.map_claude_model
map_claude_model(claude_model) ==
    IF claude_model \in DOMAIN get_model_mapping
    THEN get_model_mapping[claude_model]
    ELSE IF in_lower("haiku", claude_model) THEN targets.small_model
    ELSE IF in_lower("sonnet", claude_model) \/ in_lower("opus", claude_model)
    THEN targets.big_model
    ELSE targets.big_model

\* BaseProvider's table with claude-3-5-haiku among the big models.
get_claude_model_mapping_haiku35Big(big_model, small_model) ==
    [claude_model \in
        {<<"claude-3-", "haiku">>, <<"claude-3-5-", "haiku">>,
         <<"claude-3-5-", "haiku", "-20241022">>, <<"claude-3-5-", "sonnet">>} |->
        IF claude_model = <<"claude-3-", "haiku">> THEN small_model ELSE big_model]

\* BaseProvider.get_claude_model_mapping: the table of BaseProvider, which
\* holds the nine identifiers of config.get_model_mapping and nine more.
get_claude_model_mapping(big_model, small_model) ==
    [claude_model \in
        {<<"claude-3-", "haiku">>, <<"claude-3-", "haiku", "-20240307">>,
         <<"claude-3-5-", "haiku">>, <<"claude-3-5-", "haiku", "-20241022">>,
         <<"claude-3-", "sonnet">>, <<"claude-3-", "sonnet", "-20240229">>,
         <<"claude-3-5-", "sonnet">>, <<"claude-3-5-", "sonnet", "-20241022">>,
         <<"claude-3-7-", "sonnet">>, <<"claude-3-7-", "sonnet", "-20250219">>,
         <<"claude-3-", "opus">>, <<"claude-3-", "opus", "-20240229">>,
         <<"claude-", "sonnet", "-4">>, <<"claude-", "sonnet", "-4-20250514">>,
         <<"claude-", "opus", "-4">>, <<"claude-", "opus", "-4-20250514">>,
         <<"claude-", "opus", "-4-1">>, <<"claude-", "opus", "-4-1-20250805">>} |->
        IF claude_model[2] = "haiku" THEN small_model ELSE big_model]

\* BaseProvider.map_claude_model
BaseProvider_map_claude_model(claude_model, big_model, small_model) ==
    LET model_mapping == get_claude_model_mapping(big_model, small_model)
    IN  IF claude_model \in DOMAIN model_mapping
        THEN model_mapping[claude_model]
        ELSE IF in_lower("haiku", claude_model) THEN small_model
        ELSE IF in_lower("sonnet", claude_model) \/ in_lower("opus", claude_model)
        THEN big_model
        ELSE big_model

\* A missing stream flag taken for True.
or_False_absentIsTrue(flag) == flag = NoFlag \/ flag[1]

\* "request.stream or False"
or_False(flag) == flag # NoFlag /\ flag[1]

\* Python's truthiness of "system".
SystemTruthy(system) ==
    \/ system.kind = "str" /\ system.text # ""
    \/ system.kind = "list" /\ system.items # <<>>

\* The loop "for block in system_content" (and "for item in ..."): the texts
\* of the dicts of type text, concatenated; a missing text counts as "".
RECURSIVE text_content(_)
text_content(items) ==
    IF items = <<>> THEN ""
    ELSE (IF Head(items).type = "text"
          THEN (IF Head(items).text = None THEN "" ELSE Head(items).text)
          ELSE "")
         \o text_content(Tail(items))

\* The system message, if any.
system_messages(system) ==
    IF SystemTruthy(system)
    THEN <<[role |-> "system",
            content |-> Str(IF system.kind = "list"
                            THEN text_content(system.items)
                            ELSE system.text),
            tool_calls |-> <<>>, tool_call_id |-> None]>>
    ELSE <<>>

\* json.dumps of a dict of strings.
RECURSIVE json_items(_)
json_items(input) ==
    IF input = <<>> THEN ""
    ELSE "\"" \o Head(input).key \o "\": \"" \o Head(input).value \o "\""
         \o (IF Len(input) > 1 THEN ", " ELSE "") \o json_items(Tail(input))

json_dumps(input) == "{" \o json_items(input) \o "}"

\* str(result_content): the content of a tool result as text.
result_text(content) ==
    CASE content.kind = "list" -> text_content(content.items)
      [] content.kind = "str" -> content.text
      [] OTHER -> "None"

TextPart(text) == [type |-> "text", text |-> text]

\* dict.get(key, default) of a key that may be missing.
get(value, default) == IF value = None THEN default ELSE value

\* The image_url part of an image given as a dict, if its source is base64.
ImageParts(source) ==
    IF source.type = "base64"
    THEN <<[type |-> "image_url",
            image_url |-> [url |-> "data:" \o get(source.media_type, "image/jpeg")
                                   \o ";base64," \o get(source.data, "")]]>>
    ELSE <<>>

ToolCall(part) ==
    [id |-> part.id, type |-> "function",
     function |-> [name |-> part.name, arguments |-> json_dumps(part.input)]]

\* One pass of "for part in msg.content": over a dict the image becomes a
\* part too; over a typed block only text, tool_use and tool_result are
\* looked at.
PartStep(st, part) ==
    CASE part.type = "text" ->
             [st EXCEPT !.content_parts = Append(@, TextPart(part.text))]
      [] part.type = "image" /\ part.shape = "dict" ->
             [st EXCEPT !.content_parts = @ \o ImageParts(part.source)]
      [] part.type = "tool_use" ->
             [st EXCEPT !.has_tool_use = TRUE,
                        !.tool_calls = Append(@, ToolCall(part))]
      [] part.type = "tool_result" ->
             [st EXCEPT !.has_tool_results = TRUE,
                        !.content_parts =
                            Append(@, TextPart(result_text(part.content)))]
      [] OTHER -> st

RECURSIVE PartsLoop(_, _)
PartsLoop(st, parts) ==
    IF parts = <<>> THEN st
    ELSE PartsLoop(PartStep(st, Head(parts)), Tail(parts))

\* The tool messages in the opposite order.
RECURSIVE ToolResultMessages_reversed(_)
ToolResultMessages_reversed(parts) ==
    IF parts = <<>> THEN <<>>
    ELSE ToolResultMessages_reversed(Tail(parts))
         \o (IF Head(parts).type = "tool_result"
             THEN <<[role |-> "tool",
                     content |-> Str(result_text(Head(parts).content)),
                     tool_calls |-> <<>>,
                     tool_call_id |-> Head(parts).tool_use_id]>>
             ELSE <<>>)

\* The second loop over msg.content: one tool message per tool result.
RECURSIVE ToolResultMessages(_)
ToolResultMessages(parts) ==
    IF parts = <<>> THEN <<>>
    ELSE (IF Head(parts).type = "tool_result"
          THEN <<[role |-> "tool",
                  content |-> Str(result_text(Head(parts).content)),
                  tool_calls |-> <<>>,
                  tool_call_id |-> Head(parts).tool_use_id]>>
          ELSE <<>>)
         \o ToolResultMessages(Tail(parts))

\* The content of a message with tool calls: the first text part if its text
\* is not empty, else null.
ToolUseContent(content_parts) ==
    LET text_parts == SelectSeq(content_parts, LAMBDA part : part.type = "text")
    IN  IF text_parts # <<>> /\ text_parts[1].text # ""
        THEN Str(text_parts[1].text)
        ELSE NoneValue

\* What one message of the request adds to "messages".
convert_message(msg) ==
    LET openai_msg == [role |-> msg.role, content |-> NoneValue,
                       tool_calls |-> <<>>, tool_call_id |-> None]
        loop == PartsLoop([content_parts |-> <<>>, has_tool_use |-> FALSE,
                           tool_calls |-> <<>>, has_tool_results |-> FALSE],
                          msg.content.items)
    IN  IF msg.content.kind = "str"
        THEN <<[openai_msg EXCEPT !.content = msg.content]>>
        ELSE IF loop.has_tool_use
        THEN <<[openai_msg EXCEPT !.tool_calls = loop.tool_calls,
                                  !.content = ToolUseContent(loop.content_parts)]>>
        ELSE IF loop.has_tool_results
        THEN ToolResultMessages(msg.content.items)
        ELSE <<[openai_msg EXCEPT
                   !.content = IF loop.content_parts # <<>>
                               THEN List(loop.content_parts)
                               ELSE Str("")]>>

RECURSIVE convert_messages(_)
convert_messages(msgs) ==
    IF msgs = <<>> THEN <<>>
    ELSE convert_message(Head(msgs)) \o convert_messages(Tail(msgs))

\* One of "tools": name, description and input_schema, None when missing.
Tool(name, description, input_schema) ==
    [name |-> name, description |-> description, input_schema |-> input_schema]

\* Python's truthiness of an Optional[List].
ListTruthy(value) == value.kind = "list" /\ value.items # <<>>

\* Python's truthiness of tool_choice: None and {} are falsy.
ChoiceTruthy(tool_choice) ==
    tool_choice # NoChoice /\ tool_choice # Choice(None, None)

_should_include_tools(tools) == ListTruthy(tools)

\* The parameters of a tool that has no input_schema.
EmptyParameters == "{type: object, properties: {}, required: []}"

RECURSIVE _convert_tools(_)
_convert_tools(tools) ==
    IF tools = <<>> THEN <<>>
    ELSE (IF Head(tools).name = None
          THEN <<>>
          ELSE <<[type |-> "function", name |-> Head(tools).name,
                  description |-> IF Head(tools).description = None
                                  THEN "" ELSE Head(tools).description,
                  parameters |-> IF Head(tools).input_schema = None
                                 THEN EmptyParameters
                                 ELSE Head(tools).input_schema]>>)
         \o _convert_tools(Tail(tools))

_convert_tool_choice(tool_choice) ==
    LET choice_type == IF tool_choice.type = None THEN "auto" ELSE tool_choice.type
    IN  CASE choice_type = "auto" -> Str("auto")
          [] choice_type = "none" -> Str("none")
          [] choice_type = "tool" /\ tool_choice.name # None ->
                 [kind |-> "function", name |-> tool_choice.name]
          [] OTHER -> Str("auto")

\* The optional parameters with temperature and top_p tested for truth
\* ("if request.temperature:"), which drops a 0.0.
optional_parameters_byTruth(req) ==
    (IF req.temperature \notin {Null, 0}
     THEN [temperature |-> req.temperature] ELSE <<>>)
    @@ (IF req.top_p \notin {Null, 0} THEN [top_p |-> req.top_p] ELSE <<>>)
    @@ (IF ListTruthy(req.stop_sequences)
        THEN [stop |-> req.stop_sequences.items] ELSE <<>>)
    @@ (IF ChoiceTruthy(req.tool_choice) /\ ListTruthy(req.tools)
        THEN [tool_choice |-> _convert_tool_choice(req.tool_choice)] ELSE <<>>)

\* "Add optional parameters" and "Handle tools": the fields added to the
\* backend's request.
optional_parameters(req) ==
    (IF req.temperature # Null THEN [temperature |-> req.temperature] ELSE <<>>)
    @@ (IF req.top_p # Null THEN [top_p |-> req.top_p] ELSE <<>>)
    @@ (IF ListTruthy(req.stop_sequences)
        THEN [stop |-> req.stop_sequences.items] ELSE <<>>)
    @@ (IF ListTruthy(req.tools) /\ _should_include_tools(req.tools)
        THEN [tools |-> _convert_tools(req.tools.items)] ELSE <<>>)
    @@ (IF ChoiceTruthy(req.tool_choice) /\ ListTruthy(req.tools)
        THEN [tool_choice |-> _convert_tool_choice(req.tool_choice)] ELSE <<>>)

convert_request(req) ==
    [model |-> map_claude_model(req.model),
     messages |-> system_messages(req.system) \o convert_messages(req.messages),
     max_tokens |-> req.max_tokens,
     stream |-> or_False(req.stream)]
    @@ optional_parameters(req)

\* Requests that set the optional fields.  A temperature or top_p of 0 and 1
\* stands for 0.0 and 1.0, the ends of the range the model allows.
WeatherTool == Tool("get_weather", "Weather of a city", "{type: object}")
OptionalTools ==
    {NoneValue, List(<<>>), List(<<WeatherTool>>),
     List(<<Tool(None, None, None), Tool("get_time", None, None)>>)}
OptionalChoices ==
    {NoChoice, Choice(None, None), Choice("auto", None), Choice("any", None),
     Choice("tool", "get_weather")}
OptionRequests ==
    {[ClaudeMessagesRequest(Sonnet35, 1024,
                            <<ClaudeMessage("user", Str("Hello"))>>, NoneValue,
                            Flag(FALSE))
        EXCEPT !.temperature = temperature, !.top_p = top_p,
               !.stop_sequences = stop_sequences, !.tools = tools,
               !.tool_choice = tool_choice] :
        temperature \in {Null, 0, 1}, top_p \in {Null, 0, 1},
        stop_sequences \in {NoneValue, List(<<>>), List(<<"END">>)},
        tools \in OptionalTools, tool_choice \in OptionalChoices}

ConvertInit ==
    /\ \/ claude_request \in ClaudeRequests /\ targets = DefaultTargets
       \/ claude_request \in PlainRequests /\ targets \in Targets
       \/ claude_request \in OptionRequests /\ targets = DefaultTargets
    /\ openai_request = <<>>
    /\ openai_response = <<>>
    /\ claude_response = <<>>
    /\ StreamOff
    /\ GatewayOff
    /\ StreamsOff
    /\ ConsumerOff

Convert ==
    /\ openai_request = <<>>
    /\ openai_request' = convert_request(claude_request)
    /\ UNCHANGED <<claude_request, targets, openai_response, claude_response>>

besides_converter == <<vars, gateway, streams, generator, handed>>

ConvertNext ==
    \/ Convert /\ UNCHANGED besides_converter

ConvertSpec ==
    ConvertInit /\ [][ConvertNext]_<<converter, besides_converter>>

\* The same conversion of one message whose blocks are typed or dicts.
ImageSources ==
    {Source("base64", "image/png", "iVBORw0"), Source("base64", None, "iVBORw0"),
     Source("url", None, None)}
TypedBlocks ==
    {ClaudeTextContent("Hi"),
     ClaudeToolUseContent("toolu_1", "get_weather", <<Item("city", "Paris")>>),
     ClaudeToolResultContent("toolu_1", Str("sunny")),
     ClaudeToolResultContent("toolu_2", List(<<Dict("text", "noon")>>))}
    \cup {ClaudeImageContent(source) : source \in ImageSources}
AsDict(block) == [block EXCEPT !.shape = "dict"]
ShapedBlocks == TypedBlocks \cup {AsDict(block) : block \in TypedBlocks}

ShapeInit ==
    /\ claude_request \in
           {ClaudeMessagesRequest(Sonnet35, 1024,
                                  <<ClaudeMessage("user", List(blocks))>>,
                                  NoneValue, Flag(FALSE)) :
               blocks \in SeqUpTo(ShapedBlocks, MaxBlocks)}
    /\ targets = DefaultTargets
    /\ openai_request = <<>>
    /\ openai_response = <<>>
    /\ claude_response = <<>>
    /\ StreamOff
    /\ GatewayOff
    /\ StreamsOff
    /\ ConsumerOff

ShapeNext ==
    \/ Convert /\ UNCHANGED besides_converter

ShapeSpec ==
    ShapeInit /\ [][ShapeNext]_<<converter, besides_converter>>

-----------------------------------------------------------------------------
(* convert_response: the backend's payload turned into the Claude response  *)
(* (openai.py).                                                             *)

\* JSON text is the sequence of its tokens: the punctuation and, for any other
\* token, the string literal with that text.  "" is the empty sequence.
Punctuation == {"{", "}", "[", "]", ":", ","}
IsLiteral(token) == token \notin Punctuation

JSONDecodeError == [raises |-> TRUE, kind |-> "", items |-> <<>>]
Loaded(kind, items) == [raises |-> FALSE, kind |-> kind, items |-> items]

\* The members of an object, read after "{" or ",", up to the closing "}".
RECURSIVE json_members(_)
json_members(tokens) ==
    IF /\ Len(tokens) >= 4
       /\ IsLiteral(tokens[1]) /\ tokens[2] = ":" /\ IsLiteral(tokens[3])
    THEN IF tokens[4] = "}" /\ Len(tokens) = 4
         THEN Loaded("dict", <<Item(tokens[1], tokens[3])>>)
         ELSE IF tokens[4] = ","
         THEN LET rest == json_members(SubSeq(tokens, 5, Len(tokens)))
              IN  IF rest.raises THEN JSONDecodeError
                  ELSE Loaded("dict", <<Item(tokens[1], tokens[3])>> \o rest.items)
         ELSE JSONDecodeError
    ELSE JSONDecodeError

\* json.loads: an object of strings, an empty array, or JSONDecodeError.
json_loads(tokens) ==
    IF tokens = <<"{", "}">> THEN Loaded("dict", <<>>)
    ELSE IF tokens = <<"[", "]">> THEN Loaded("list", <<>>)
    ELSE IF tokens # <<>> /\ Head(tokens) = "{" THEN json_members(Tail(tokens))
    ELSE JSONDecodeError

\* str.strip() of the contents the backend sends.
strip(content) ==
    CASE content \in {" ", "\n\n"} -> ""
      [] content = " Hi " -> "Hi"
      [] OTHER -> content

\* The backend's payload.  A key that is missing is None ("choices": the
\* NoneValue); "tool_calls" missing, null or empty is the empty sequence.
OpenAIToolCall(id, name, arguments) ==
    [id |-> id, function |-> [name |-> name, arguments |-> arguments]]
OpenAIChoice(content, tool_calls, finish_reason) ==
    [message |-> [content |-> content, tool_calls |-> tool_calls],
     finish_reason |-> finish_reason]
OpenAIUsage(prompt_tokens, completion_tokens) ==
    [prompt_tokens |-> prompt_tokens, completion_tokens |-> completion_tokens]
OpenAIResponse(id, model, choices, usage) ==
    [id |-> id, model |-> model, choices |-> choices, usage |-> usage]

ResponseContents == {None, "", " ", "\n\n", "Hello", " Hi "}
ArgumentTexts ==
    {<<"{", "city", ":", "Paris", "}">>,
     <<"{", "city", ":", "Paris", ",", "unit", ":", "C", "}">>,
     <<"{", "}">>, <<>>, <<"{", "city", ":">>, <<"[", "]">>}
ResponseToolCalls ==
    {OpenAIToolCall("call_1", "get_weather", arguments) :
        arguments \in ArgumentTexts}
    \cup {OpenAIToolCall("call_2", "get_time", <<"{", "}">>)}
ResponseFinishReasons ==
    {None, "stop", "length", "function_call", "tool_calls", "content_filter",
     "unknown", ""}
ResponseModels == {None, "", "gpt-4o", "gpt-4o-mini", "deepseek-chat", "gpt-4.1"}
ResponseUsages == {OpenAIUsage(Absent, Absent), OpenAIUsage(10, 8)}

\* The payloads convert_response is given: every message with every finish
\* reason; every backend model under every configuration, with and without
\* an original request; and the payloads without a first choice.
OpenAIResponses ==
    {OpenAIResponse("chatcmpl-1", "gpt-4o",
                    List(<<OpenAIChoice(content, tool_calls, finish_reason)>>),
                    OpenAIUsage(10, 8)) :
        content \in ResponseContents,
        tool_calls \in SeqUpTo(ResponseToolCalls, MaxBlocks - 1),
        finish_reason \in ResponseFinishReasons}
    \cup {OpenAIResponse("chatcmpl-1", model, choices, usage) :
            model \in ResponseModels,
            choices \in {NoneValue, List(<<>>),
                         List(<<OpenAIChoice("Hello", <<>>, "stop")>>)},
            usage \in ResponseUsages}

\* The request the response answers; <<>> is None.
OriginalRequests ==
    {<<>>}
    \cup {ClaudeMessagesRequest(model, 1024,
                                <<ClaudeMessage("user", Str("Hello"))>>,
                                NoneValue, Flag(FALSE)) :
            model \in ModelIds}

\* BaseProvider.guess_claude_model
Haiku3 == <<"claude-3-", "haiku", "-20240307">>
Opus3 == <<"claude-3-", "opus", "-20240229">>

guess_claude_model_smallFirst(provider_model, big_model, small_model) ==
    IF provider_model \in {None, ""} THEN Haiku3
    ELSE IF provider_model = small_model THEN Haiku3
    ELSE IF provider_model = big_model THEN Opus3
    ELSE Haiku3

guess_claude_model(provider_model, big_model, small_model) ==
    IF provider_model \in {None, ""} THEN Haiku3
    ELSE IF provider_model = big_model THEN Opus3
    ELSE IF provider_model = small_model THEN Haiku3
    ELSE Haiku3

\* What convert_response did: it raised, or it returned the response.
Raised(exception) == [raised |-> exception]

ClaudeUsage(input_tokens_, output_tokens) ==
    [input_tokens |-> input_tokens_, output_tokens |-> output_tokens]

\* ClaudeMessagesResponse(...): "content" takes ClaudeTextContent objects
\* and dicts, no other object.
ClaudeMessagesResponse(id, model, content, stop_reason, usage) ==
    IF \E i \in DOMAIN content :
           content[i].shape = "model" /\ content[i].type # "text"
    THEN Raised("ValidationError")
    ELSE [raised |-> None, id |-> id, type |-> "message", role |-> "assistant",
          model |-> model, content |-> content, stop_reason |-> stop_reason,
          usage |-> usage]

\* "if message.get('content') and message['content'].strip()"
TextContents(content) ==
    IF content # None /\ content # "" /\ strip(content) # ""
    THEN <<ClaudeTextContent(content)>>
    ELSE <<>>

\* The loop "for tool_call in tool_calls": the blocks appended, or the
\* exception of ClaudeToolUseContent(...), whose "input" is to be a dict.
RECURSIVE ToolUseContents(_)
ToolUseContents(tool_calls) ==
    IF tool_calls = <<>> THEN [raised |-> None, content |-> <<>>]
    ELSE LET tool_call == Head(tool_calls)
             loaded == json_loads(tool_call.function.arguments)
             arguments == IF loaded.raises THEN Loaded("dict", <<>>) ELSE loaded
             rest == ToolUseContents(Tail(tool_calls))
         IN  IF arguments.kind # "dict" THEN Raised("ValidationError")
             ELSE IF rest.raised # None THEN rest
             ELSE [raised |-> None,
                   content |-> <<ClaudeToolUseContent(tool_call.id,
                                                      tool_call.function.name,
                                                      arguments.items)>>
                               \o rest.content]

convert_response(payload, original_request) ==
    IF payload.choices.kind = "none" THEN Raised("KeyError")
    ELSE IF payload.choices.items = <<>> THEN Raised("IndexError")
    ELSE LET choice == payload.choices.items[1]
             message == choice.message
             tool_uses == ToolUseContents(message.tool_calls)
             usage == ClaudeUsage(
                          IF payload.usage.prompt_tokens = Absent THEN 0
                          ELSE payload.usage.prompt_tokens,
                          IF payload.usage.completion_tokens = Absent THEN 0
                          ELSE payload.usage.completion_tokens)
             model == IF original_request # <<>> THEN original_request.model
                      ELSE guess_claude_model(payload.model, targets.big_model,
                                              targets.small_model)
         IN  IF tool_uses.raised # None THEN tool_uses
             ELSE ClaudeMessagesResponse(
                      payload.id, model,
                      TextContents(message.content) \o tool_uses.content,
                      _convert_finish_reason(choice.finish_reason), usage)

RespondInit ==
    /\ openai_response \in OpenAIResponses
    /\ claude_request \in OriginalRequests
    /\ \/ targets = DefaultTargets
       \/ /\ targets \in Targets
          /\ openai_response.choices =
                 List(<<OpenAIChoice("Hello", <<>>, "stop")>>)
          /\ openai_response.usage = OpenAIUsage(10, 8)
    /\ claude_request # <<>> =>
           \/ claude_request.model = Sonnet35
           \/ /\ openai_response.choices =
                     List(<<OpenAIChoice("Hello", <<>>, "stop")>>)
              /\ openai_response.usage = OpenAIUsage(10, 8)
    /\ openai_request = <<>>
    /\ claude_response = <<>>
    /\ StreamOff
    /\ GatewayOff
    /\ StreamsOff
    /\ ConsumerOff

Respond ==
    /\ claude_response = <<>>
    /\ claude_response' = convert_response(openai_response, claude_request)
    /\ UNCHANGED <<claude_request, openai_request, targets, openai_response>>

RespondNext ==
    \/ Respond /\ UNCHANGED besides_converter

RespondSpec ==
    RespondInit /\ [][RespondNext]_<<converter, besides_converter>>

-----------------------------------------------------------------------------
(* The gateway: settings, key validation, provider selection and the      *)
(* life of the provider's resources (config.py, utils.py, main.py)         *)

\* The number of requests one run of the gateway receives.
MaxRequests == 2

ServerKey == <<"sk-server">>
ProxyKey == <<"proxy-key">>
ClientKey == <<"sk-client">>

\* The environment: the variable is unset, empty or set.
Environments ==
    [OPENAI_API_KEY : {NoKey, EmptyKey, ServerKey},
     CLAUDE_PROXY_AUTH_KEY : {NoKey, EmptyKey, ProxyKey}]

\* Inbound requests.  The Authorization header is absent, a Bearer credential
\* (one space, a token without spaces), a Bearer credential without the space,
\* a credential of another scheme, or "Bearer " followed by a Bearer
\* credential.
XApiKeys == {NoKey, EmptyKey, ProxyKey, ClientKey}
Authorizations ==
    {NoKey, <<"Bearer">> \o ProxyKey, <<"Bearer">> \o ClientKey,
     <<"Bearersk-client">>, <<"Bearer", "Bearer">> \o ClientKey}
\* ClaudeTokenCountRequest has no "stream" field.
Requests ==
    {req \in [endpoint : {"messages", "count_tokens"}, x_api_key : XApiKeys,
              authorization : Authorizations, stream : BOOLEAN] :
        req.endpoint = "count_tokens" => ~req.stream}

\* get_settings(): Settings() read from the environment, nothing else.
get_settings(environment) ==
    [openai_api_key |-> environment.OPENAI_API_KEY,
     auth_key |-> environment.CLAUDE_PROXY_AUTH_KEY]

\* headers.get(name, default)
header_get(value, default) == IF value = NoKey THEN default ELSE value

\* auth_header.startswith("Bearer ")
startswith_Bearer(auth_header) ==
    Len(auth_header) >= 2 /\ auth_header[1] = "Bearer"

\* auth_header.replace("Bearer ", ""): every "Bearer " goes, wherever it is.
RECURSIVE replace_Bearer(_)
replace_Bearer(auth_header) ==
    IF Len(auth_header) < 2 THEN auth_header
    ELSE IF auth_header[1] = "Bearer" THEN replace_Bearer(Tail(auth_header))
    ELSE <<auth_header[1]>> \o replace_Bearer(Tail(auth_header))

extract_api_key_from_headers(headers) ==
    IF HasValue(headers.x_api_key) THEN headers.x_api_key
    ELSE LET auth_header == header_get(headers.authorization, EmptyKey)
         IN  IF startswith_Bearer(auth_header)
             THEN replace_Bearer(auth_header)
             ELSE NoKey

extract_proxy_auth_key(headers) ==
    IF HasValue(headers.x_api_key) THEN headers.x_api_key
    ELSE LET auth_header == header_get(headers.authorization, EmptyKey)
         IN  IF startswith_Bearer(auth_header)
             THEN replace_Bearer(auth_header)
             ELSE NoKey

\* validate_api_key with every key accepted.
validate_api_key_acceptsAll(key, expected_key) == TRUE

validate_api_key(key, expected_key) ==
    IF expected_key = NoKey THEN TRUE
    ELSE IF key = NoKey THEN FALSE
    ELSE key = expected_key

\* get_provider that falls back to the client's key whenever there is one.
get_provider_prefersClient(client_api_key) ==
    IF HasValue(client_api_key)
    THEN [raises |-> FALSE, api_key |-> client_api_key]
    ELSE [raises |-> FALSE, api_key |-> settings.openai_api_key]

\* get_provider without the check for a missing key.
get_provider_unchecked(client_api_key) ==
    IF HasValue(settings.openai_api_key)
    THEN [raises |-> FALSE, api_key |-> settings.openai_api_key]
    ELSE [raises |-> FALSE, api_key |-> client_api_key]

\* get_provider: the server's key if there is one, else the client's, else
\* HTTPException(500).
get_provider(client_api_key) ==
    IF HasValue(settings.openai_api_key)
    THEN [raises |-> FALSE, api_key |-> settings.openai_api_key]
    ELSE IF ~HasValue(client_api_key)
    THEN [raises |-> TRUE, api_key |-> NoKey]
    ELSE [raises |-> FALSE, api_key |-> client_api_key]

\* BaseProvider.get_headers()["Authorization"]
get_headers(api_key) == <<"Bearer">> \o api_key

\* The backend call of the request in hand: the Authorization header it
\* carries, and (for the record) the inbound headers it is made for.
BackendCall ==
    [Authorization |-> get_headers(provider),
     inbound |-> [x_api_key |-> request.x_api_key,
                  authorization |-> request.authorization]]

\* An HTTPException, and the JSON error response FastAPI makes of it.
HTTPException(status_code, detail) ==
    [status_code |-> status_code, detail |-> detail, body |-> <<>>]

\* Any other exception: it has a message and no status code.
Exception(message) == [status_code |-> Null, detail |-> message, body |-> <<>>]

\* The response FastAPI makes of the ClaudeMessagesResponse the handler returns.
JSONResponse(content) == [status_code |-> 200, detail |-> "", body |-> content]

\* handler: "idle"       no request yet
\*          "depends"    a request is in, its dependency has not run
\*          "validated"  the dependency returned, the handler's body starts
\*          "provider"   get_provider returned
\*          "body"       the StreamingResponse is returned, its generator
\*                       stream_with_cleanup has not been started
\*          "yielded"    the generator is suspended at a yield inside
\*                       "async with self.client.stream(...)"
\*          "yielded_error"  the generator is suspended at the yield of an
\*                       except clause of stream_complete
\*          "orphaned"   stream_with_cleanup was closed at its yield;
\*                       stream_complete awaits its finalizer
\*          "responded"  the handling of the request is over
GatewayInit ==
    /\ env \in Environments
    /\ settings = get_settings(env)
    /\ request = NoRequest
    /\ handler = "idle"
    /\ client_key = NoKey
    /\ provider = NoKey
    /\ client = "none"
    /\ backend = "none"
    /\ connected = FALSE
    /\ sent = <<>>
    /\ response = NoResponse
    /\ exit_path = "none"
    /\ requests = 0
    /\ answer = NoAnswer
    /\ StreamOff
    /\ StreamsOff
    /\ ConsumerOff
    /\ ConverterOff

\* create_message's except clauses with every exception wrapped into a 500.
create_message_except_rewraps(raised) == HTTPException(500, raised.detail)

\* create_message's except clauses: an HTTPException goes on as it is, any
\* other exception becomes HTTPException(500, str(e)).
create_message_except(raised) ==
    IF raised.status_code # Null THEN raised
    ELSE HTTPException(500, raised.detail)

\* The handling ends: the response (or the exception that became it).
Ends(http_response, path) ==
    /\ response' = http_response
    /\ exit_path' = path
    /\ handler' = "responded"

\* A request arrives.
Receive ==
    /\ handler \in {"idle", "responded"}
    /\ requests < MaxRequests
    /\ request' \in Requests
    /\ requests' = requests + 1
    /\ handler' = "depends"
    /\ client_key' = NoKey
    /\ provider' = NoKey
    /\ client' = "none"
    /\ backend' = "none"
    /\ connected' = FALSE
    /\ response' = NoResponse
    /\ exit_path' = "none"
    /\ answer' = NoAnswer
    /\ UNCHANGED <<env, settings, sent>>

\* validate_client_api_key raises 401.
ValidateRejects ==
    /\ handler = "depends"
    /\ HasValue(settings.auth_key)
    /\ ~validate_api_key(extract_proxy_auth_key(request), settings.auth_key)
    /\ Ends(HTTPException(401, "Invalid API key"), "rejected")
    /\ UNCHANGED <<env, settings, request, client_key, provider, client, backend,
                   connected, sent, requests, answer>>

\* validate_client_api_key returns the client's key.
ValidatePasses ==
    /\ handler = "depends"
    /\ HasValue(settings.auth_key) =>
           validate_api_key(extract_proxy_auth_key(request), settings.auth_key)
    /\ client_key' = extract_api_key_from_headers(request)
    /\ handler' = "validated"
    /\ UNCHANGED <<env, settings, request, provider, client, backend, connected,
                   sent, response, exit_path, requests, answer>>

\* count_tokens: an estimate computed locally.
CountTokens ==
    /\ handler = "validated"
    /\ request.endpoint = "count_tokens"
    /\ Ends(HTTPException(200, ""), "counted")
    /\ UNCHANGED <<env, settings, request, client_key, provider, client, backend,
                   connected, sent, requests, answer>>

\* create_message: the client is gone before the handler starts.
Disconnected ==
    /\ handler = "validated"
    /\ request.endpoint = "messages"
    /\ Ends(create_message_except(HTTPException(499, "Client disconnected")),
            "disconnected")
    /\ UNCHANGED <<env, settings, request, client_key, provider, client, backend,
                   connected, sent, requests, answer>>

\* create_message: get_provider raises.
GetProviderRaises ==
    /\ handler = "validated"
    /\ request.endpoint = "messages"
    /\ get_provider(client_key).raises
    /\ Ends(create_message_except(HTTPException(500, "No API key available")),
            "no_key")
    /\ UNCHANGED <<env, settings, request, client_key, provider, client, backend,
                   connected, sent, requests, answer>>

\* create_message: get_provider builds the provider and its httpx client.
GetProvider ==
    /\ handler = "validated"
    /\ request.endpoint = "messages"
    /\ ~get_provider(client_key).raises
    /\ provider' = get_provider(client_key).api_key
    /\ client' = "open"
    /\ handler' = "provider"
    /\ UNCHANGED <<env, settings, request, client_key, backend, connected, sent,
                   response, exit_path, requests, answer>>

\* What the backend call comes to: convert_request raises before it; the
\* connection fails; the backend answers with an error status; it answers 200.
Outcomes == {"convert_raises", "connect_fails", "error_status", "ok"}
Calls(outcome) == outcome # "convert_raises"
Connects(outcome) == outcome \in {"error_status", "ok"}

\* "async with provider" that leaves the client as it is.
aexit_keepsOpen == client

\* BaseProvider.__aexit__: self.client.aclose()
aexit == "closed"

\* What the backend call of complete() comes to: the outcome, and with it
\* the text of the exception, the status code, or the payload of the 200.
Answer(outcome, status_code, text, payload) ==
    [outcome |-> outcome, status_code |-> status_code, text |-> text,
     payload |-> payload]

CompletionPayloads ==
    {OpenAIResponse("chatcmpl-1", "gpt-4o", choices, OpenAIUsage(10, 8)) :
        choices \in
            {NoneValue, List(<<>>),
             List(<<OpenAIChoice("Hello", <<>>, "stop")>>),
             List(<<OpenAIChoice(None,
                                 <<OpenAIToolCall("call_2", "get_time",
                                                  <<"{", "}">>)>>,
                                 "tool_calls")>>)}}

Answers ==
    {Answer("convert_raises", Null, "other", <<>>)}
    \cup {Answer("connect_fails", Null, text, <<>>) : text \in ErrorTexts}
    \cup {Answer("error_status", status_code, HTTPStatusError(status_code), <<>>) :
            status_code \in {code \in Statuses : IsErrorStatus(code)}}
    \cup {Answer("ok", 200, "", payload) : payload \in CompletionPayloads}

\* The body of the request in hand.
RequestBody ==
    ClaudeMessagesRequest(Sonnet35, 1024, <<ClaudeMessage("user", Str("Hello"))>>,
                          NoneValue, Flag(request.stream))

\* complete() that returns what it has when convert_response raises.
complete_returnsPartial(backend_answer, original_request) ==
    [raises |-> FALSE,
     value |-> ClaudeMessagesResponse("chatcmpl-1", original_request.model,
                                      <<>>, None, ClaudeUsage(0, 0))]

\* OpenAIProvider.complete: the response it returns or the exception it
\* raises.  convert_request is called before the try; what is raised inside
\* the try is raised again as Exception(classify_error(...)).
complete(backend_answer, original_request) ==
    CASE backend_answer.outcome = "convert_raises" ->
             [raises |-> TRUE, value |-> Exception(backend_answer.text)]
      [] backend_answer.outcome = "connect_fails" ->
             [raises |-> TRUE,
              value |-> Exception(classify_error(backend_answer.text, Null))]
      [] backend_answer.outcome = "error_status" ->
             [raises |-> TRUE,
              value |-> Exception(classify_error(backend_answer.text,
                                                 backend_answer.status_code))]
      [] backend_answer.outcome = "ok" ->
             LET converted == convert_response(backend_answer.payload,
                                               original_request)
             IN  IF converted.raised # None
                 THEN [raises |-> TRUE,
                       value |-> Exception(classify_error("other", Null))]
                 ELSE [raises |-> FALSE, value |-> converted]

\* Not streaming: "async with provider: await provider.complete(...)".
Complete ==
    /\ handler = "provider"
    /\ ~request.stream
    /\ \E backend_answer \in Answers :
        LET completed == complete(backend_answer, RequestBody)
        IN  /\ answer' = backend_answer
            /\ sent' = IF Calls(backend_answer.outcome)
                       THEN Append(sent, BackendCall) ELSE sent
            /\ connected' = Connects(backend_answer.outcome)
            /\ IF completed.raises
               THEN Ends(create_message_except(completed.value), "backend_error")
               ELSE Ends(JSONResponse(completed.value), "completed")
    /\ client' = aexit
    /\ UNCHANGED <<env, settings, request, client_key, provider, backend, requests>>

\* Streaming: the handler returns the StreamingResponse around the generator.
ReturnStream ==
    /\ handler = "provider"
    /\ request.stream
    /\ response' = HTTPException(200, "")
    /\ handler' = "body"
    /\ UNCHANGED <<env, settings, request, client_key, provider, client, backend,
                   connected, sent, exit_path, requests, answer>>

\* The client goes away before the transport asks the generator for anything:
\* the generator never runs.
AbandonUnstarted ==
    /\ handler = "body"
    /\ exit_path' = "abandoned_unstarted"
    /\ handler' = "responded"
    /\ UNCHANGED <<env, settings, request, client_key, provider, client, backend,
                   connected, sent, response, requests, answer>>

\* The first event is asked for: "async with provider", then stream_complete
\* up to its first yield (message_start, or the error event).
StartBody ==
    /\ handler = "body"
    /\ \E outcome \in Outcomes :
        /\ sent' = IF Calls(outcome) THEN Append(sent, BackendCall) ELSE sent
        /\ connected' = Connects(outcome)
        /\ CASE outcome = "convert_raises" ->
                    /\ client' = aexit
                    /\ exit_path' = "raised"
                    /\ handler' = "responded"
                    /\ UNCHANGED backend
             [] outcome = "connect_fails" ->
                    /\ handler' = "yielded_error"
                    /\ UNCHANGED <<client, backend, exit_path>>
             [] outcome = "error_status" ->
                    /\ backend' = "closed"
                    /\ handler' = "yielded_error"
                    /\ UNCHANGED <<client, exit_path>>
             [] outcome = "ok" ->
                    /\ backend' = "open"
                    /\ handler' = "yielded"
                    /\ UNCHANGED <<client, exit_path>>
    /\ UNCHANGED <<env, settings, request, client_key, provider, response, requests, answer>>

\* The next event is asked for and the generator yields it inside the stream.
NextEvent ==
    /\ handler = "yielded"
    /\ UNCHANGED <<gateway>>

\* The next event is asked for; reading or translating raises: the stream is
\* left and the except clause yields the error event.
NextRaises ==
    /\ handler = "yielded"
    /\ backend' = "closed"
    /\ handler' = "yielded_error"
    /\ UNCHANGED <<env, settings, request, client_key, provider, client, connected,
                   sent, response, exit_path, requests, answer>>

\* The next event is asked for; the loop is over: the stream is left,
\* stream_complete returns, "async with provider" is left.
StreamEnds ==
    /\ handler = "yielded"
    /\ backend' = "closed"
    /\ client' = aexit
    /\ exit_path' = "completed"
    /\ handler' = "responded"
    /\ UNCHANGED <<env, settings, request, client_key, provider, connected, sent,
                   response, requests, answer>>

\* The next event is asked for after the error event: stream_complete returns.
ErrorEnds ==
    /\ handler = "yielded_error"
    /\ client' = aexit
    /\ exit_path' = "backend_error"
    /\ handler' = "responded"
    /\ UNCHANGED <<env, settings, request, client_key, provider, backend, connected,
                   sent, response, requests, answer>>

\* The consumer is cancelled while the generator awaits the backend: the
\* CancelledError unwinds both context managers.
Cancelled ==
    /\ handler = "yielded"
    /\ backend' = "closed"
    /\ client' = aexit
    /\ exit_path' = "cancelled"
    /\ handler' = "responded"
    /\ UNCHANGED <<env, settings, request, client_key, provider, connected, sent,
                   response, requests, answer>>

\* The consumer abandons the event stream after an event: the generator
\* stream_with_cleanup is closed at its yield (GeneratorExit), which leaves
\* "async with provider"; stream_complete is left to its finalizer.
Abandon ==
    /\ handler \in {"yielded", "yielded_error"}
    /\ client' = aexit
    /\ exit_path' = "abandoned"
    /\ handler' = "orphaned"
    /\ UNCHANGED <<env, settings, request, client_key, provider, backend, connected,
                   sent, response, requests, answer>>

\* The finalizer closes stream_complete at its yield, which leaves
\* "async with self.client.stream(...)" if it is still inside.
Finalize ==
    /\ handler = "orphaned"
    /\ backend' = IF backend = "open" THEN "closed" ELSE backend
    /\ handler' = "responded"
    /\ UNCHANGED <<env, settings, request, client_key, provider, client, connected,
                   sent, response, exit_path, requests, answer>>

besides_gateway ==
    <<vars, streams, generator, handed, converter>>

GatewayNext ==
    \/ Receive /\ UNCHANGED besides_gateway
    \/ ValidateRejects /\ UNCHANGED besides_gateway
    \/ ValidatePasses /\ UNCHANGED besides_gateway
    \/ CountTokens /\ UNCHANGED besides_gateway
    \/ Disconnected /\ UNCHANGED besides_gateway
    \/ GetProviderRaises /\ UNCHANGED besides_gateway
    \/ GetProvider /\ UNCHANGED besides_gateway
    \/ Complete /\ UNCHANGED besides_gateway
    \/ ReturnStream /\ UNCHANGED besides_gateway
    \/ AbandonUnstarted /\ UNCHANGED besides_gateway
    \/ StartBody /\ UNCHANGED besides_gateway
    \/ NextEvent /\ UNCHANGED besides_gateway
    \/ NextRaises /\ UNCHANGED besides_gateway
    \/ StreamEnds /\ UNCHANGED besides_gateway
    \/ ErrorEnds /\ UNCHANGED besides_gateway
    \/ Cancelled /\ UNCHANGED besides_gateway
    \/ Abandon /\ UNCHANGED besides_gateway
    \/ Finalize /\ UNCHANGED besides_gateway

GatewaySpec == GatewayInit /\ [][GatewayNext]_<<gateway, besides_gateway>>

-----------------------------------------------------------------------------
(* Reading the gateway *)

\* The two credential modes, and whether a proxy-access key is configured.
FixedKeyMode == HasValue(env.OPENAI_API_KEY)
PassthroughMode == ~FixedKeyMode
ProxyKeyConfigured == HasValue(env.CLAUDE_PROXY_AUTH_KEY)

\* The key a request presents: its x-api-key header, else the token of its
\* Authorization header "Bearer <token>", else none.
BearerToken(authorization) ==
    IF Len(authorization) = 2 /\ authorization[1] = "Bearer"
    THEN <<authorization[2]>>
    ELSE NoKey

PresentedKey(headers) ==
    IF HasValue(headers.x_api_key) THEN headers.x_api_key
    ELSE BearerToken(headers.authorization)

-----------------------------------------------------------------------------
(* Claims about the gateway *)

\* C11: in fixed-key mode with a proxy-access key configured, the dependency
\* of both endpoints rejects a request whose presented key is missing or is
\* not the configured key with 401, with no provider built and no backend call
\* issued for it, and lets a request presenting exactly the configured key
\* through.
C11_ValidationStep ==
    /\ (FixedKeyMode /\ ProxyKeyConfigured /\ handler = "depends") =>
           IF PresentedKey(request) = env.CLAUDE_PROXY_AUTH_KEY
           THEN handler' = "validated" /\ response'.status_code # 401
           ELSE /\ handler' = "responded"
                /\ response'.status_code = 401
                /\ provider' = NoKey
                /\ client' = "none"
                /\ sent' = sent
    /\ (response.status_code = 401 /\ requests' = requests) => sent' = sent

C12_PassthroughIgnoresProxyKey ==
    (PassthroughMode /\ ProxyKeyConfigured) =>
        /\ settings.auth_key = NoKey
        /\ response.status_code # 401

\* C13: in passthrough mode a request to /v1/messages that supplies no client
\* credential (absent or empty) ends in a 500 "No API key available", with no
\* provider built and no backend call issued.
C13_NoCredentialIs500 ==
    ( /\ PassthroughMode
      /\ request.endpoint = "messages"
      /\ ~HasValue(PresentedKey(request))
      /\ handler = "responded"
      /\ exit_path # "disconnected" ) =>
        /\ response = HTTPException(500, "No API key available")
        /\ provider = NoKey
        /\ client = "none"
        /\ \A i \in DOMAIN sent : HasValue(PresentedKey(sent[i].inbound))

\* C14: in fixed-key mode every backend call carries the server's key: the
\* calls of requests that differ in their client headers carry the same
\* Authorization header, and the key a client presented is not in it.
C14_FixedKeyCredential ==
    FixedKeyMode =>
        /\ \A i \in DOMAIN sent :
               /\ sent[i].Authorization = <<"Bearer">> \o env.OPENAI_API_KEY
               /\ Tail(sent[i].Authorization) # PresentedKey(sent[i].inbound)
        /\ \A i, j \in DOMAIN sent : sent[i].Authorization = sent[j].Authorization

C14_Witness ==
    /\ FixedKeyMode
    /\ Len(sent) = 2
    /\ PresentedKey(sent[1].inbound) = NoKey
    /\ PresentedKey(sent[2].inbound) = ClientKey
    /\ sent[1].Authorization = sent[2].Authorization

-----------------------------------------------------------------------------
(* The generator as a function of its own state: one step of stream_complete *)
(* on a record of the generator's local variables.                          *)

\* The generator before client.stream(...) is entered.
NewStream ==
    [pc |-> "start", events |-> <<>>, received |-> <<>>, input_tokens |-> 0,
     tool_calls_accumulator |-> <<>>, has_text_content |-> FALSE,
     has_tool_content |-> FALSE, text_block_started |-> FALSE]

\* The response arrived with status 200: the locals are set and message_start
\* is yielded.
Opened(st) ==
    [st EXCEPT !.pc = "streaming", !.events = Append(@, MessageStart(0))]

\* One pass of the loop over response.aiter_lines().
Translate(st, line) ==
    LET read == [st EXCEPT !.received = Append(@, line)]
        text == TextEvents(line.content, st.text_block_started)
        has_text == st.has_text_content \/ Truthy(line.content)
        loop == ToolCallsLoop([accumulator |-> st.tool_calls_accumulator,
                               has_tool |-> st.has_tool_content,
                               out |-> <<>>],
                              line.tool_calls, has_text)
        finish == IF Truthy(line.finish_reason)
                  THEN FinishEvents(line, loop.has_tool, has_text)
                  ELSE <<>>
    IN  CASE line.kind = "chunk" ->
                 [read EXCEPT
                     !.input_tokens = NewInputTokens(line.usage, st.input_tokens),
                     !.text_block_started = st.text_block_started \/ Truthy(line.content),
                     !.has_text_content = has_text,
                     !.tool_calls_accumulator = loop.accumulator,
                     !.has_tool_content = loop.has_tool,
                     !.events = st.events \o text \o loop.out \o finish,
                     !.pc = AfterChunk(line.finish_reason)]
          [] line.kind = "done" -> [read EXCEPT !.pc = "sentinel"]
          [] line.kind = "nondict" ->
                 [read EXCEPT
                     !.events = Append(@, ErrorEvent(classify_error("other", Null))),
                     !.pc = "failed"]
          [] OTHER -> read

\* The lines concurrent streams are fed: text, the pieces of a tool call, the
\* finish reasons, the end marker and a line that is skipped.
FedLines ==
    {Chunk("Hi", <<>>, None, NoUsage),
     Chunk(None, <<NamedFragment(0)>>, None, NoUsage),
     Chunk(None, <<[NamedFragment(0) EXCEPT !.id = "", !.name = None,
                                            !.arguments = "{"]>>, None, NoUsage),
     Chunk(None, <<>>, "stop", [prompt_tokens |-> 3, completion_tokens |-> 7]),
     Chunk(None, <<>>, "tool_calls", NoUsage),
     [BlankLine EXCEPT !.kind = "done"],
     BlankLine}

-----------------------------------------------------------------------------
(* Concurrent streams: each request has its own provider and its own call  *)
(* of stream_complete, whose accumulator is the call's local variables      *)

StreamIds == {"a", "b"}

\* The locals another call of the generator would see, were they shared.
Locals_shared(s) == streams[CHOOSE t \in StreamIds : t # s]

\* The locals of the call that serves stream s.
Locals(s) == streams[s]

ConcurrentInit ==
    /\ streams = [s \in StreamIds |-> NewStream]
    /\ StreamOff
    /\ GatewayOff
    /\ ConsumerOff
    /\ ConverterOff

StreamOpens(s) ==
    /\ streams[s].pc = "start"
    /\ streams' = [streams EXCEPT ![s] = Opened(Locals(s))]

\* The next line of stream s arrives.
StreamReads(s) ==
    /\ streams[s].pc = "streaming"
    /\ Len(streams[s].received) < MaxLines
    /\ \E line \in FedLines :
           streams' = [streams EXCEPT ![s] = Translate(Locals(s), line)]

besides_streams ==
    <<vars, gateway, generator, handed, converter>>

ConcurrentNext ==
    \/ \E s \in StreamIds : StreamOpens(s) /\ UNCHANGED besides_streams
    \/ \E s \in StreamIds : StreamReads(s) /\ UNCHANGED besides_streams

ConcurrentSpec == ConcurrentInit /\ [][ConcurrentNext]_<<streams, besides_streams>>

\* What one stream yields when it runs alone on the given lines.
RECURSIVE Alone(_)
Alone(lines) ==
    IF lines = <<>> THEN Opened(NewStream)
    ELSE Translate(Alone(SubSeq(lines, 1, Len(lines) - 1)), Last(lines))

\* C16: with the lines of several streams arriving interleaved in any order,
\* each stream's events (and its accumulator) are those it has when it runs
\* alone on its own lines.
C16_StreamsIndependent ==
    \A s \in StreamIds :
        streams[s].pc # "start" => streams[s] = Alone(streams[s].received)

C16_Witness ==
    /\ streams["a"].received =
           <<Chunk("Hi", <<>>, None, NoUsage), Chunk(None, <<>>, "stop",
                 [prompt_tokens |-> 3, completion_tokens |-> 7])>>
    /\ streams["b"].received =
           <<Chunk(None, <<NamedFragment(0)>>, None, NoUsage),
             Chunk(None, <<>>, "tool_calls", NoUsage)>>
    /\ Last(streams["a"].events).type = "message_stop"
    /\ Last(streams["b"].events).type = "message_stop"

-----------------------------------------------------------------------------
(* One generator and its consumer: stream_complete runs only while the     *)
(* consumer awaits its next event, and is suspended at each yield           *)

\* A generator that asks for the next line whatever it has yet to yield.
ReadsOn_ahead(st, count) == TRUE

\* The loop asks response.aiter_lines() for the next line only when the pass
\* in hand has come to its end, every event of it yielded and taken.
ReadsOn(st, count) == count = Len(st.events)

PullInit ==
    /\ generator = NewStream
    /\ handed = 0
    /\ StreamOff
    /\ GatewayOff
    /\ StreamsOff
    /\ ConverterOff

\* The consumer asks for the first event: the request is sent and
\* message_start is yielded to it.
PullOpens ==
    /\ generator.pc = "start"
    /\ generator' = Opened(generator)
    /\ handed' = handed + 1

\* The consumer asks for the next event and the pass in hand yields it.
PullYields ==
    /\ handed < Len(generator.events)
    /\ handed' = handed + 1
    /\ UNCHANGED generator

\* The consumer asks for the next event and the loop reads the next line; the
\* first event of its pass, if it has one, is yielded to the consumer.
PullReads ==
    /\ generator.pc = "streaming"
    /\ ReadsOn(generator, handed)
    /\ Len(generator.received) < MaxLines
    /\ \E line \in Lines : generator' = Translate(generator, line)
    /\ handed' = IF Len(generator'.events) > Len(generator.events)
                 THEN handed + 1
                 ELSE handed

\* The consumer asks for the next event and the generator returns.
PullEnds ==
    /\ generator.pc \in {"finished", "sentinel"}
    /\ handed = Len(generator.events)
    /\ generator' = [generator EXCEPT !.pc = "returned"]
    /\ UNCHANGED handed

besides_consumer ==
    <<vars, gateway, streams, converter>>

PullNext ==
    \/ PullOpens /\ UNCHANGED besides_consumer
    \/ PullYields /\ UNCHANGED besides_consumer
    \/ PullReads /\ UNCHANGED besides_consumer
    \/ PullEnds /\ UNCHANGED besides_consumer

PullSpec == PullInit /\ [][PullNext]_<<generator, handed, besides_consumer>>

\* The generator with everything but its accumulator forgotten.
Forget(st) == [st EXCEPT !.events = <<>>, !.received = <<>>]

Accumulator(st) ==
    <<st.input_tokens, st.tool_calls_accumulator, st.has_text_content,
      st.has_tool_content, st.text_block_started>>

\* C17: a line is asked of the backend only when every event of the lines
\* before it is with the consumer, one line at a time, and what the line turns
\* into depends on the accumulator alone, not on earlier lines or events.
C17_PullStep ==
    generator'.received # generator.received =>
        /\ handed = Len(generator.events)
        /\ Len(generator'.received) = Len(generator.received) + 1
        /\ LET fresh == Translate(Forget(generator), Last(generator'.received))
           IN  /\ generator'.events = generator.events \o fresh.events
               /\ Accumulator(generator') = Accumulator(fresh)
               /\ generator'.pc = fresh.pc

C17_PullBased == [][C17_PullStep]_<<generator, handed>>

C17_Witness ==
    /\ Len(generator.received) = 2
    /\ generator.received[1] = Chunk("Hi", <<>>, None, NoUsage)
    /\ generator.received[2].finish_reason = "stop"
    /\ handed = 4
    /\ Len(generator.events) > handed

-----------------------------------------------------------------------------
(* Reading a conversion *)

Converted == openai_request # <<>>

OfBlockType(msg, type) ==
    IF msg.content.kind = "list"
    THEN SelectSeq(msg.content.items, LAMBDA block : block.type = type)
    ELSE <<>>

\* What the i-th message of the request became: the backend messages between
\* the translation of what precedes it (the system message included) and the
\* translation of what follows it.
TranslationBefore(i) ==
    convert_request([claude_request EXCEPT !.messages = SubSeq(@, 1, i - 1)]).messages

TranslationAfter(i) ==
    convert_messages(SubSeq(claude_request.messages, i + 1,
                            Len(claude_request.messages)))

TranslationOf(i) ==
    SubSeq(openai_request.messages, Len(TranslationBefore(i)) + 1,
           Len(openai_request.messages) - Len(TranslationAfter(i)))

SitsBetween(i) ==
    openai_request.messages =
        TranslationBefore(i) \o TranslationOf(i) \o TranslationAfter(i)

\* The system text flattened: the string, or the texts of the text blocks.
FlattenedSystem(system) ==
    CASE system.kind = "str" -> system.text
      [] system.kind = "list" -> text_content(system.items)
      [] OTHER -> ""

\* The text of the first Text block that is not empty, if there is one.
FirstText(msg) ==
    LET texts == SelectSeq(OfBlockType(msg, "text"), LAMBDA block : block.text # "")
    IN  IF texts = <<>> THEN NoneValue ELSE Str(texts[1].text)

-----------------------------------------------------------------------------
(* Claims about convert_request *)

\* C18: a message holding k >= 1 ToolResult blocks and no ToolUse block
\* becomes exactly k backend messages of role "tool", in block order, each
\* with its block's tool_use_id as tool_call_id, and nothing else; the k
\* messages sit between the translations of its neighbours.
C18_ToolResultsBecomeToolMessages ==
    Converted =>
        \A i \in DOMAIN claude_request.messages :
            LET msg == claude_request.messages[i]
                results == OfBlockType(msg, "tool_result")
            IN  (results # <<>> /\ OfBlockType(msg, "tool_use") = <<>>) =>
                    /\ SitsBetween(i)
                    /\ Len(TranslationOf(i)) = Len(results)
                    /\ \A j \in DOMAIN results :
                           /\ TranslationOf(i)[j].role = "tool"
                           /\ TranslationOf(i)[j].tool_call_id = results[j].tool_use_id

C18_Witness ==
    /\ Converted
    /\ Len(claude_request.messages) = 3
    /\ claude_request.messages[2].content =
           List(<<ClaudeToolResultContent("toolu_2", List(<<Dict("text", "noon")>>)),
                  ClaudeTextContent("Hi"),
                  ClaudeToolResultContent("toolu_1", Str("sunny"))>>)
    /\ Len(openai_request.messages) = 4
    /\ openai_request.messages[2].tool_call_id = "toolu_2"
    /\ openai_request.messages[3].tool_call_id = "toolu_1"

\* C19: there is a system message in the backend request only if the
\* flattened system text is not empty: none for system absent, "", [] and for
\* blocks whose texts concatenate to "".
C19_NoEmptySystemMessage ==
    (Converted /\ FlattenedSystem(claude_request.system) = "") =>
        \A j \in DOMAIN openai_request.messages :
            openai_request.messages[j].role # "system"

\* C20: a message holding k >= 1 ToolUse blocks becomes exactly one backend
\* message with k tool_calls in block order (id, type "function", name, the
\* input as JSON), whose content is the text of the first non-empty Text
\* block, or null if there is none.
C20_ToolUseBecomesOneMessage ==
    Converted =>
        \A i \in DOMAIN claude_request.messages :
            LET msg == claude_request.messages[i]
                uses == OfBlockType(msg, "tool_use")
            IN  uses # <<>> =>
                    /\ SitsBetween(i)
                    /\ Len(TranslationOf(i)) = 1
                    /\ Len(TranslationOf(i)[1].tool_calls) = Len(uses)
                    /\ \A j \in DOMAIN uses :
                           TranslationOf(i)[1].tool_calls[j] =
                               [id |-> uses[j].id, type |-> "function",
                                function |-> [name |-> uses[j].name,
                                              arguments |-> json_dumps(uses[j].input)]]
                    /\ TranslationOf(i)[1].content = FirstText(msg)

\* The identifier holds the family word in some case.
Spellings(word) ==
    CASE word = "haiku" -> {"haiku", "Haiku", "HAIKU"}
      [] word = "sonnet" -> {"sonnet", "Sonnet", "SONNET"}
      [] word = "opus" -> {"opus", "Opus", "OPUS"}

Holds(model, word) == \E i \in DOMAIN model : model[i] \in Spellings(word)

AllStringContent(req) ==
    \A i \in DOMAIN req.messages : req.messages[i].content.kind = "str"

\* C25: the backend model is the configured small target if the request's
\* model holds "haiku" in any case, and the configured big target otherwise:
\* if it holds "sonnet" or "opus" in any case, and for any other identifier,
\* the empty one included.
C25_ModelBySubstring ==
    Converted =>
        openai_request.model =
            IF Holds(claude_request.model, "haiku") THEN targets.small_model
            ELSE IF Holds(claude_request.model, "sonnet")
                    \/ Holds(claude_request.model, "opus")
            THEN targets.big_model
            ELSE targets.big_model

C25_Witness ==
    /\ Converted
    /\ claude_request.model = <<"Claude-3-", "Haiku">>
    /\ targets = Settings("qwen-max", "qwen-turbo")
    /\ openai_request.model = "qwen-turbo"

\* C27: a request whose messages all have string content becomes backend
\* messages of the same number, order, roles and contents, after at most one
\* leading system message (none when "system" is absent); the backend model
\* is the mapped model, max_tokens is copied, and stream is the request's
\* flag, false when the flag is absent.
C27_PlainMessagesCopied ==
    (Converted /\ AllStringContent(claude_request)) =>
        LET offset == Len(openai_request.messages) - Len(claude_request.messages)
        IN  /\ offset \in {0, 1}
            /\ claude_request.system.kind = "none" => offset = 0
            /\ offset = 1 => openai_request.messages[1].role = "system"
            /\ \A i \in DOMAIN claude_request.messages :
                   /\ openai_request.messages[offset + i].role =
                          claude_request.messages[i].role
                   /\ openai_request.messages[offset + i].content =
                          claude_request.messages[i].content
                   /\ openai_request.messages[offset + i].tool_calls = <<>>
            /\ openai_request.model = map_claude_model(claude_request.model)
            /\ openai_request.max_tokens = claude_request.max_tokens
            /\ openai_request.stream = (claude_request.stream = Flag(TRUE))

C27_Witness ==
    /\ Converted
    /\ claude_request.stream = NoFlag
    /\ claude_request.system = Str("Be brief.")
    /\ Len(claude_request.messages) = 2
    /\ claude_request.messages[1].role = "user"
    /\ claude_request.messages[2].role = "assistant"
    /\ claude_request.max_tokens = 4096
    /\ Len(openai_request.messages) = 3
    /\ openai_request.stream = FALSE
    /\ openai_request.max_tokens = 4096

-----------------------------------------------------------------------------
(* Claims about the shapes of blocks *)

\* The same request with every block in the other shape.
OtherShape(block) ==
    [block EXCEPT !.shape = IF @ = "dict" THEN "model" ELSE "dict"]

Reshaped(req) ==
    [req EXCEPT !.messages =
        [i \in DOMAIN @ |->
            IF @[i].content.kind = "list"
            THEN [@[i] EXCEPT !.content.items =
                     [j \in DOMAIN @ |-> OtherShape(@[j])]]
            ELSE @[i]]]

\* C21: convert_request produces the same backend messages for a block given
\* as a dict and for the equivalent typed block, whatever the kind of block;
\* an Image block with a base64 source becomes the image_url part in both
\* shapes.
C21_ShapesConvertAlike ==
    Converted =>
        openai_request.messages = convert_request(Reshaped(claude_request)).messages

-----------------------------------------------------------------------------
(* Reading a response conversion *)

Responded == claude_response # <<>>

HasFirstChoice ==
    openai_response.choices.kind = "list" /\ openai_response.choices.items # <<>>

FirstChoice == openai_response.choices.items[1]

\* The input of a tool call: its arguments parsed, or the empty object when
\* they do not parse.
ParsedInput(arguments) ==
    IF json_loads(arguments).raises THEN <<>> ELSE json_loads(arguments).items

-----------------------------------------------------------------------------
(* Claims about convert_response *)

\* C22: the content of the response is one Text block if the backend
\* message's content is a string that is not empty, and none otherwise,
\* followed by one ToolUse block per entry of the backend's tool_calls, in
\* order, with the entry's id and name and its arguments parsed as input (the
\* empty object when they do not parse); no message makes the conversion
\* fail.
C22_ContentBlocks ==
    (Responded /\ HasFirstChoice) =>
        LET message == FirstChoice.message
            texts == IF message.content \notin {None, ""}
                     THEN <<ClaudeTextContent(message.content)>>
                     ELSE <<>>
            tool_uses ==
                [i \in DOMAIN message.tool_calls |->
                    ClaudeToolUseContent(
                        message.tool_calls[i].id,
                        message.tool_calls[i].function.name,
                        ParsedInput(message.tool_calls[i].function.arguments))]
        IN  /\ claude_response.raised = None
            /\ claude_response.content = texts \o tool_uses

\* C24: whenever convert_response returns, the stop_reason of the response
\* is the finish reason mapped by the table stop -> end_turn, length ->
\* max_tokens, function_call -> tool_use, tool_calls -> tool_use,
\* content_filter -> stop_sequence, any other string -> end_turn, and null
\* (or no finish reason) -> null; no finish reason makes the mapping fail.
\* The message_delta of a stream takes its stop_reason from the same mapping.
C24_FinishReasonMapping ==
    (Responded /\ HasFirstChoice /\ FirstChoice.message.tool_calls = <<>>) =>
        /\ claude_response.raised = None
        /\ claude_response.stop_reason =
               IF FirstChoice.finish_reason = None THEN None
               ELSE StopReasonTable(FirstChoice.finish_reason)

C24_Witness ==
    /\ Responded
    /\ HasFirstChoice
    /\ FirstChoice.finish_reason = "content_filter"
    /\ claude_response.raised = None
    /\ claude_response.stop_reason = "stop_sequence"

\* C26: whenever convert_response returns, the model of the response is the
\* original request's model if there is an original request, whatever the
\* backend reports; without one it is claude-3-opus-20240229 if the backend's
\* model is the configured big target, and claude-3-haiku-20240307 if it is
\* the small target (and not the big one), is missing or is neither.
C26_ResponseModel ==
    (Responded /\ claude_response.raised = None) =>
        claude_response.model =
            IF claude_request # <<>> THEN claude_request.model
            ELSE IF openai_response.model \notin {None, ""}
                    /\ openai_response.model = targets.big_model
            THEN Opus3
            ELSE Haiku3

C26_Witness ==
    /\ Responded
    /\ claude_request = <<>>
    /\ targets.big_model = targets.small_model
    /\ openai_response.model = targets.big_model
    /\ claude_response.raised = None
    /\ claude_response.model = Opus3

-----------------------------------------------------------------------------
(* Reading a completion *)

NotStreamed ==
    handler = "responded" /\ request.endpoint = "messages" /\ ~request.stream

NoFirstChoice(payload) ==
    payload.choices.kind = "none" \/ payload.choices.items = <<>>

\* The backend call failed, or its payload could not be translated.
Failed(backend_answer) ==
    \/ backend_answer.outcome \in {"convert_raises", "connect_fails", "error_status"}
    \/ /\ backend_answer.outcome = "ok"
       /\ convert_response(backend_answer.payload, RequestBody).raised # None

IsErrorResponse(http_response) ==
    /\ http_response.status_code >= 400
    /\ http_response.detail # ""
    /\ http_response.body = <<>>

\* The message that goes with a status code.
StatusMessage(status_code) ==
    CASE status_code = 401 -> "Invalid API key. Please check your credentials."
      [] status_code = 429 -> "Rate limit exceeded. Please try again later."
      [] status_code = 400 -> "Bad request. Please check your input parameters."
      [] status_code = 500 -> "Internal server error. Please try again later."
      [] OTHER -> "API Error: other"

\* The key the claim expects of the headers: x-api-key if it is there and
\* not empty, else what follows "Bearer " in Authorization, else none.
TokenAfterBearer(authorization) ==
    IF Len(authorization) >= 2 /\ authorization[1] = "Bearer"
    THEN Tail(authorization)
    ELSE NoKey

ExpectedKey(headers) ==
    IF HasValue(headers.x_api_key) THEN headers.x_api_key
    ELSE TokenAfterBearer(headers.authorization)

Validated ==
    \/ handler \in {"validated", "provider", "body", "yielded", "yielded_error",
                    "orphaned"}
    \/ handler = "responded" /\ exit_path # "rejected"

-----------------------------------------------------------------------------
(* Claims about the non-streaming call, its errors and the client's key *)

\* C23: when the backend's 200 payload has no first choice (no "choices", or
\* an empty list), the request is answered with an error response: status
\* 500, a detail, and no response body, not even a partial one; the provider
\* is closed.
C23_NoChoiceIsError ==
    (NotStreamed /\ answer.outcome = "ok" /\ NoFirstChoice(answer.payload)) =>
        /\ IsErrorResponse(response)
        /\ response.status_code = 500
        /\ exit_path = "backend_error"
        /\ client = "closed"

C23_Witness ==
    /\ NotStreamed
    /\ answer.outcome = "ok"
    /\ answer.payload.choices = List(<<>>)
    /\ response = HTTPException(500, "API Error: other")

\* C28: after a non-2xx status of the backend, the message given to the
\* client is the one that goes with the status code (401, 429, 400, 500, and
\* the generic one for any other code), whatever the text of the exception;
\* after a transport failure it is the timeout or connection guidance if the
\* exception's text holds that word.
C28_StatusAloneDecides ==
    NotStreamed =>
        /\ answer.outcome = "error_status" =>
               response.detail = StatusMessage(answer.status_code)
        /\ (answer.outcome = "connect_fails" /\ answer.text = "timeout") =>
               response.detail = "Request timeout. Please try again."
        /\ (answer.outcome = "connect_fails" /\ answer.text = "connection") =>
               response.detail = "Connection error. Please check your network."

\* C29: a non-streaming /v1/messages call whose backend call or translation
\* failed is answered with an error response (status 500, a detail, no
\* response body), and a response body is only ever sent for a call that did
\* not fail; the 401 of the proxy key check, the 499 of a disconnected client
\* and the 500 of a missing credential reach the client with their own status
\* code and detail.
C29_FailuresAreErrorResponses ==
    NotStreamed =>
        /\ (answer # NoAnswer /\ Failed(answer)) =>
               IsErrorResponse(response) /\ response.status_code = 500
        /\ response.body # <<>> => (answer # NoAnswer /\ ~Failed(answer))
        /\ exit_path = "rejected" =>
               response = HTTPException(401, "Invalid API key")
        /\ exit_path = "disconnected" =>
               response = HTTPException(499, "Client disconnected")
        /\ exit_path = "no_key" =>
               response = HTTPException(500, "No API key available")

C29_Witness ==
    /\ NotStreamed
    /\ exit_path = "disconnected"
    /\ response.status_code = 499
    /\ requests = 2
    /\ sent # <<>>

\* C30: the key the dependency hands on is the x-api-key header if it is
\* there and not empty, else what follows "Bearer " in the Authorization
\* header, else none; in passthrough mode every backend call carries exactly
\* that key.
C30_ExtractedKey ==
    /\ Validated => client_key = ExpectedKey(request)
    /\ PassthroughMode =>
           \A i \in DOMAIN sent :
               sent[i].Authorization = <<"Bearer">> \o ExpectedKey(sent[i].inbound)

-----------------------------------------------------------------------------
(* count_tokens (main.py): the estimate of a request's input tokens.  The   *)
(* request is held in claude_request and the answer in claude_response.     *)

\* A "text" that is JSON null, where that differs from a missing "text".
null == "null"

ClaudeTokenCountRequest(model, system, messages) ==
    [model |-> model, system |-> system, messages |-> messages]

\* The dicts of "system" (List[Dict[str, Any]]): a text that is a string,
\* missing or null, and a dict without text.
CountSystemBlocks ==
    {Dict("text", ""), Dict("text", "Be brief."), Dict("text", "You are terse."),
     Dict("text", None), Dict("image", None), Dict("text", null)}
CountSystems ==
    {NoneValue, Str(""), Str("Be brief."), Str("abc")}
    \cup {List(blocks) : blocks \in SeqUpTo(CountSystemBlocks, MaxBlocks - 1)}

CountBlocks ==
    {ClaudeTextContent(""), ClaudeTextContent("Hi"), ClaudeTextContent("there"),
     ClaudeToolUseContent("toolu_1", "get_weather", <<Item("city", "Paris")>>),
     ClaudeToolResultContent("toolu_1", Str("sunny"))}
CountContents ==
    {Str(""), Str("Hi"), Str("Hello world")}
    \cup {List(blocks) : blocks \in SeqUpTo(CountBlocks, MaxBlocks - 1)}
CountRequests ==
    {ClaudeTokenCountRequest(Sonnet35, system,
                             <<ClaudeMessage("user", content)>> \o rest) :
        system \in CountSystems, content \in CountContents,
        rest \in {<<>>, <<ClaudeMessage("assistant", Str("Hi there"))>>}}

\* for block in request.system: if isinstance(block, dict) and "text" in block:
\*     total_chars += len(block["text"])
RECURSIVE system_chars(_)
system_chars(items) ==
    IF items = <<>> THEN 0
    ELSE (IF Head(items).text # None THEN Len(Head(items).text) ELSE 0)
         + system_chars(Tail(items))

\* len(None) raises TypeError.
len_raises(system) ==
    /\ system.kind = "list"
    /\ \E i \in DOMAIN system.items : system.items[i].text = null

\* for block in msg.content: the blocks are the typed models, of which only
\* ClaudeTextContent has the attribute "text".
RECURSIVE content_chars(_)
content_chars(blocks) ==
    IF blocks = <<>> THEN 0
    ELSE (IF Head(blocks).type = "text" THEN Len(Head(blocks).text) ELSE 0)
         + content_chars(Tail(blocks))

RECURSIVE messages_chars(_)
messages_chars(messages) ==
    IF messages = <<>> THEN 0
    ELSE (IF Head(messages).content.kind = "str"
          THEN Len(Head(messages).content.text)
          ELSE content_chars(Head(messages).content.items))
         + messages_chars(Tail(messages))

ClaudeTokenCountResponse(input_tokens_) == [input_tokens |-> input_tokens_]

\* estimated_tokens = max(1, total_chars // 4)
estimated_tokens(total_chars) ==
    IF total_chars \div 4 > 1 THEN total_chars \div 4 ELSE 1

\* count_tokens: the response, or the HTTPException(500) of its except clause.
count_tokens(req) ==
    LET system_total ==
            IF ~SystemTruthy(req.system) THEN 0
            ELSE IF req.system.kind = "str" THEN Len(req.system.text)
            ELSE system_chars(req.system.items)
    IN  IF len_raises(req.system)
        THEN HTTPException(500, "other")
        ELSE ClaudeTokenCountResponse(
                 estimated_tokens(system_total + messages_chars(req.messages)))

CountInit ==
    /\ claude_request \in CountRequests
    /\ targets = DefaultTargets
    /\ openai_request = <<>>
    /\ openai_response = <<>>
    /\ claude_response = <<>>
    /\ StreamOff
    /\ GatewayOff
    /\ StreamsOff
    /\ ConsumerOff

Count ==
    /\ claude_response = <<>>
    /\ claude_response' = count_tokens(claude_request)
    /\ UNCHANGED <<claude_request, openai_request, targets, openai_response>>

CountNext ==
    \/ Count /\ UNCHANGED besides_converter

CountSpec ==
    CountInit /\ [][CountNext]_<<converter, besides_converter>>

-----------------------------------------------------------------------------
(* Reading a count *)

Counted == claude_response # <<>>

\* The characters of a text field that has any.
Characters(text) == IF text \in {None, null} THEN 0 ELSE Len(text)

RECURSIVE SumOfTexts(_)
SumOfTexts(items) ==
    IF items = <<>> THEN 0
    ELSE Characters(Head(items).text) + SumOfTexts(Tail(items))

\* Every text block of a message list, in order.
RECURSIVE TextBlocksOf(_)
TextBlocksOf(messages) ==
    IF messages = <<>> THEN <<>>
    ELSE (IF Head(messages).content.kind = "str"
          THEN <<Dict("text", Head(messages).content.text)>>
          ELSE SelectSeq(Head(messages).content.items,
                         LAMBDA block : block.type = "text"))
         \o TextBlocksOf(Tail(messages))

\* C of the claim: the characters of the system text and of the messages' text.
TotalCharacters(req) ==
    (CASE req.system.kind = "none" -> 0
       [] req.system.kind = "str" -> Len(req.system.text)
       [] req.system.kind = "list" -> SumOfTexts(req.system.items))
    + SumOfTexts(TextBlocksOf(req.messages))

-----------------------------------------------------------------------------
(* Claims about count_tokens *)

\* C31: count_tokens answers every request with input_tokens =
\* max(1, floor(C / 4)), C being the number of characters of the system text
\* and of the messages' text; it is an integer >= 1, also when there is no
\* text at all.
C31_TokenEstimate ==
    Counted =>
        /\ claude_response =
               ClaudeTokenCountResponse(Max({1, TotalCharacters(claude_request) \div 4}))
        /\ claude_response.input_tokens >= 1

\* The same estimate, for the requests whose texts are strings or missing.
EstimateOfStringTexts ==
    (Counted /\ ~len_raises(claude_request.system)) =>
        /\ claude_response =
               ClaudeTokenCountResponse(Max({1, TotalCharacters(claude_request) \div 4}))
        /\ claude_response.input_tokens >= 1

-----------------------------------------------------------------------------
(* Claims about the optional fields of the backend's request *)

\* The fields every backend request has.
RequiredFields == {"model", "messages", "max_tokens", "stream"}

Carries(field) == field \in DOMAIN openai_request

\* C32: the backend's request holds temperature and top_p exactly when the
\* request has them (a 0.0 included), with their values; "stop" exactly when
\* stop_sequences is a non-empty list, with its items; tool_choice only when
\* the request has a tool_choice and tools; and no optional field that the
\* request does not supply.
C32_OptionalFieldsOnlyIfSupplied ==
    Converted =>
        /\ Carries("temperature") <=> claude_request.temperature # Null
        /\ Carries("temperature") =>
               openai_request.temperature = claude_request.temperature
        /\ Carries("top_p") <=> claude_request.top_p # Null
        /\ Carries("top_p") => openai_request.top_p = claude_request.top_p
        /\ Carries("stop") <=>
               /\ claude_request.stop_sequences.kind = "list"
               /\ claude_request.stop_sequences.items # <<>>
        /\ Carries("stop") =>
               openai_request.stop = claude_request.stop_sequences.items
        /\ Carries("tool_choice") =>
               /\ claude_request.tool_choice # NoChoice
               /\ claude_request.tools.kind = "list"
               /\ claude_request.tools.items # <<>>
               /\ Carries("tools")
        /\ Carries("tools") => claude_request.tools.kind = "list"
        /\ DOMAIN openai_request \subseteq
               RequiredFields \cup {"temperature", "top_p", "stop", "tools",
                                    "tool_choice"}

\* A tool_choice without tools is dropped, while a temperature of 0.0 and a
\* stop sequence are passed on.
C32_Witness ==
    /\ Converted
    /\ claude_request.tool_choice = Choice("tool", "get_weather")
    /\ claude_request.tools = NoneValue
    /\ claude_request.temperature = 0
    /\ claude_request.top_p = Null
    /\ DOMAIN openai_request = RequiredFields \cup {"temperature", "stop"}

-----------------------------------------------------------------------------
(* Reading a step of the stream *)

\* The positions of the events that the step yields.
Yielded == (Len(events) + 1)..Len(events')

ReadsALine == Len(received') = Len(received) + 1

TextDeltas ==
    {i \in OfType("content_block_delta") : events[i].kind = "text_delta"}

\* The text fragments of the text deltas, and those of the chunks read, each
\* in order.
RECURSIVE TextsOf(_)
TextsOf(evs) ==
    IF evs = <<>> THEN <<>>
    ELSE (IF Head(evs).kind = "text_delta" THEN <<Head(evs).text>> ELSE <<>>)
         \o TextsOf(Tail(evs))

RECURSIVE FragmentsOf(_)
FragmentsOf(lines) ==
    IF lines = <<>> THEN <<>>
    ELSE (IF Head(lines).kind = "chunk" /\ Truthy(Head(lines).content)
          THEN <<Head(lines).content>> ELSE <<>>)
         \o FragmentsOf(Tail(lines))

RECURSIVE Concatenation(_)
Concatenation(texts) ==
    IF texts = <<>> THEN "" ELSE Head(texts) \o Concatenation(Tail(texts))

\* The arguments that a chunk brings for one backend tool-call index.
RECURSIVE ArgumentsFor(_, _)
ArgumentsFor(fragments, call) ==
    IF fragments = <<>> THEN ""
    ELSE (IF Head(fragments).index = call /\ Truthy(Head(fragments).arguments)
          THEN Head(fragments).arguments ELSE "")
         \o ArgumentsFor(Tail(fragments), call)

-----------------------------------------------------------------------------
(* Claims about the sentinel, message_start, text, tool blocks and flags *)

\* C33: the step that reads data: [DONE] ends the stream and yields nothing;
\* the events are then message_start followed only by block starts and
\* deltas: no content_block_stop, message_delta or message_stop.
C33_SentinelStep ==
    (pc' = "sentinel" /\ pc # "sentinel") =>
        /\ pc = "streaming"
        /\ ReadsALine /\ Last(received').kind = "done"
        /\ \A i \in ChunksRead : ~Truthy(received[i].finish_reason)
        /\ events' = events
        /\ events'[1].type = "message_start"
        /\ \A i \in 2..Len(events') :
              events'[i].type \in {"content_block_start", "content_block_delta"}

C33_SentinelEmitsNothing == [][C33_SentinelStep]_vars

\* A stream ended by [DONE] with its text block still open.
C33_Witness ==
    /\ pc = "sentinel"
    /\ TextStarts # {}
    /\ TextDeltas # {}
    /\ \A i \in DOMAIN events : events[i].type \notin ClosingTypes

\* C34: message_start is yielded at most once, is the first event of a stream
\* that opened, carries zero input tokens, and is not yielded before a chunk
\* has been received.
C34_MessageStartOnFirstChunk ==
    /\ Cardinality(OfType("message_start")) <= 1
    /\ \A i \in OfType("message_start") : i = 1 /\ events[i] = MessageStart(0)
    /\ pc \in {"streaming", "finished", "sentinel", "exhausted"} =>
           OfType("message_start") = {1}
    /\ OfType("message_start") # {} => ChunksRead # {}

\* C35: the text deltas are, in order, the non-empty text fragments of the
\* chunks read, each at index 0; the text block is opened at most once, at
\* index 0, exactly when there is a text delta and immediately before the
\* first one; so the deltas' texts concatenate to the fragments' text.
C35_TextPassedThrough ==
    /\ TextsOf(events) = FragmentsOf(received)
    /\ Concatenation(TextsOf(events)) = Concatenation(FragmentsOf(received))
    /\ \A i \in TextDeltas : events[i].index = 0
    /\ Cardinality(TextStarts) <= 1
    /\ \A i \in TextStarts : events[i].index = 0
    /\ TextStarts = IF TextDeltas = {} THEN {} ELSE {Min(TextDeltas) - 1}

\* Two text fragments passed on in order.
C35_Witness ==
    /\ Len(received) = 2
    /\ TextsOf(events) = <<"Hi", " there">>
    /\ Cardinality(TextStarts) = 1

\* C36: a tool_use block is opened at most once for a backend tool-call
\* index, with a non-empty name; the step that opens it yields the id and the
\* name its accumulator then holds and marks the accumulator started; a step
\* over a started accumulator appends the chunk's arguments for the index and
\* opens nothing for it.
C36_ToolStartStep ==
    /\ \A i, j \in ToolStarts : events[i].call = events[j].call => i = j
    /\ \A i \in Yielded :
          (events'[i].type = "content_block_start" /\ events'[i].kind = "tool_use") =>
              LET call == events'[i].call
              IN  /\ Truthy(events'[i].name)
                  /\ call \in DOMAIN tool_calls_accumulator'
                  /\ tool_calls_accumulator'[call].started
                  /\ events'[i].id = tool_calls_accumulator'[call].id
                  /\ events'[i].name = tool_calls_accumulator'[call].name
                  /\ \A k \in ToolStarts : events[k].call # call
    /\ \A call \in DOMAIN tool_calls_accumulator :
          (tool_calls_accumulator[call].started /\ ReadsALine) =>
              /\ tool_calls_accumulator'[call].started
              /\ tool_calls_accumulator'[call].arguments =
                     tool_calls_accumulator[call].arguments
                     \o ArgumentsFor(Last(received').tool_calls, call)
              /\ \A i \in Yielded :
                     ~(events'[i].kind = "tool_use" /\ events'[i].call = call)

C36_ToolStartOncePerIndex == [][C36_ToolStartStep]_vars

\* A started tool call that got a further fragment: one block start for it.
C36_Witness ==
    /\ Len(received) = 2
    /\ \A i \in 1..2 : received[i].kind = "chunk" /\ received[i].tool_calls # <<>>
                        /\ received[i].tool_calls[1].index = 0
    /\ Truthy(received[1].tool_calls[1].name)
    /\ Truthy(received[2].tool_calls[1].name)
    /\ Cardinality(ToolStarts) = 1

\* C37: when the streaming call fails before the backend's status check has
\* succeeded (no connection, or a non-2xx status), the events are the error
\* event alone; message_start is yielded only by the step that found the
\* status good.
C37_OpeningStep ==
    pc = "start" =>
        \/ /\ pc' = "failed"
           /\ Len(events') = 1
           /\ events'[1].type = "error"
        \/ /\ pc' = "streaming"
           /\ events' = <<MessageStart(0)>>

C37_ErrorAloneBeforeStart == [][C37_OpeningStep]_vars

C37_Witness ==
    /\ pc = "failed"
    /\ events = <<ErrorEvent("Rate limit exceeded. Please try again later.")>>

\* C38: has_text_content equals text_block_started and has_tool_content says
\* that some accumulator has started, before and after every step; no flag
\* and no accumulator's "started" goes back to false; no accumulator is
\* removed; and an accumulator's arguments grow by what is appended.
C38_FlagStep ==
    /\ has_text_content = text_block_started
    /\ has_text_content' = text_block_started'
    /\ has_tool_content <=>
           \E call \in DOMAIN tool_calls_accumulator :
               tool_calls_accumulator[call].started
    /\ has_tool_content' <=>
           \E call \in DOMAIN tool_calls_accumulator' :
               tool_calls_accumulator'[call].started
    /\ has_text_content => has_text_content'
    /\ text_block_started => text_block_started'
    /\ has_tool_content => has_tool_content'
    /\ DOMAIN tool_calls_accumulator \subseteq DOMAIN tool_calls_accumulator'
    /\ \A call \in DOMAIN tool_calls_accumulator :
          /\ tool_calls_accumulator[call].started =>
                 tool_calls_accumulator'[call].started
          /\ tool_calls_accumulator'[call].arguments =
                 tool_calls_accumulator[call].arguments
                 \o (IF ReadsALine /\ Last(received').kind = "chunk"
                     THEN ArgumentsFor(Last(received').tool_calls, call)
                     ELSE "")

C38_FlagsConsistentAndMonotone == [][C38_FlagStep]_vars

\* Text and a started tool call whose arguments came in two fragments.
C38_Witness ==
    /\ has_tool_content
    /\ 0 \in DOMAIN tool_calls_accumulator
    /\ tool_calls_accumulator[0].started
    /\ tool_calls_accumulator[0].arguments = "{{"
    /\ Len(received) = 2

-----------------------------------------------------------------------------
(* Claims about the two model mappings *)

\* The target the substring rule alone gives.
BySubstring(claude_model) ==
    IF in_lower("haiku", claude_model) THEN targets.small_model
    ELSE targets.big_model

\* C39: the target that convert_request takes from config.map_claude_model is
\* the one BaseProvider.map_claude_model gives for the same identifier and the
\* same big and small model, and every entry of either table is what the
\* substring rule gives for its identifier.
C39_MappingsAgree ==
    /\ Converted =>
           openai_request.model =
               BaseProvider_map_claude_model(claude_request.model,
                                             targets.big_model, targets.small_model)
    /\ targets # <<>> =>
           /\ \A claude_model \in DOMAIN get_model_mapping :
                  get_model_mapping[claude_model] = BySubstring(claude_model)
           /\ \A claude_model \in
                      DOMAIN get_claude_model_mapping(targets.big_model,
                                                      targets.small_model) :
                  get_claude_model_mapping(targets.big_model,
                                           targets.small_model)[claude_model]
                      = BySubstring(claude_model)

\* An identifier that only BaseProvider's table holds, mapped to the small
\* model of a configuration that is not the default.
C39_Witness ==
    /\ Converted
    /\ claude_request.model = <<"claude-3-5-", "haiku", "-20241022">>
    /\ claude_request.model \notin DOMAIN get_model_mapping
    /\ targets = Settings("qwen-max", "qwen-turbo")
    /\ openai_request.model = "qwen-turbo"

====
